---- MODULE Spec2Model ----
(***************************************************************************)
(* A model of src/src/parser.ts (ts2html): the delimiter scanner (goTo),   *)
(* the closing-bracket locator (findClosing), the delimiter-aware splitter *)
(* (split), the type resolver (getType), the declaration extractor         *)
(* (parseDTS) and the compiled-source parser (parseJS).                    *)
(*                                                                         *)
(* A text is a sequence of one-character strings.  Offsets are 0-based, as *)
(* in the source: charAt(src, i) is src[i + 1].  A call either returns a   *)
(* value or throws; both outcomes are carried by a record                  *)
(*     [err |-> "none" | "SyntaxError" | "Error" | "hang", line, val].       *)
(***************************************************************************)
EXTENDS Integers, Sequences, FiniteSets, TLC

\* src: the text handed to the parser; decl: for a class declaration or a
\* compiled source, the parts src was written from; call: the call made,
\* with its arguments; ret: its outcome.
VARIABLES src, decl, call, ret

vars == <<src, decl, call, ret>>

(***************************************************************************)
(* Bounds of the model.                                                    *)
(***************************************************************************)
\* The longest text handed to goTo and split.
MaxLen == 4
\* The longest text handed to findClosing on its own.
MaxClosingLen == 5
\* The most fragments a type expression handed to getType is made of.
MaxFragments == 3
\* The most members a class declaration handed to parseDTS declares.
MaxMembers == 3
\* The most statements the constructor of a source handed to parseJS has.
MaxStatements == 3
\* The most methods a source handed to parseJS defines.
MaxDefinitions == 2
\* The most entries a decoration call of a source handed to parseJS has.
MaxEntries == 2

(***************************************************************************)
(* JavaScript string primitives.                                           *)
(***************************************************************************)
Min(a, b) == IF a < b THEN a ELSE b
Max(a, b) == IF a > b THEN a ELSE b

\* String.prototype.charAt: the empty string outside the text.
charAt(s, i) == IF i >= 0 /\ i < Len(s) THEN s[i + 1] ELSE ""

\* String.prototype.slice(from, to): negative indices count from the end.
slice(s, from, to) ==
  LET f == IF from < 0 THEN Max(Len(s) + from, 0) ELSE Min(from, Len(s))
      t == IF to < 0 THEN Max(Len(s) + to, 0) ELSE Min(to, Len(s))
  IN IF f >= t THEN <<>> ELSE SubSeq(s, f + 1, t)

\* String.prototype.substr(start): to the end of the text.
substr(s, start) ==
  LET f == IF start < 0 THEN Max(Len(s) + start, 0) ELSE Min(start, Len(s))
  IN SubSeq(s, f + 1, Len(s))

\* String.prototype.indexOf(one character, from).
indexOf(s, c, from) ==
  LET f == Max(from, 0)
      hits == {i \in f..(Len(s) - 1) : s[i + 1] = c}
  IN IF hits = {} THEN -1 ELSE CHOOSE i \in hits : \A j \in hits : i <= j

\* The characters \s matches, among those the model's texts use.
Whitespace == {" ", "\n", "\t"}

\* String.prototype.trim.
RECURSIVE TrimLeft(_)
TrimLeft(s) ==
  CASE s # <<>> /\ Head(s) \in Whitespace -> TrimLeft(Tail(s))
    [] OTHER -> s

RECURSIVE TrimRight(_)
TrimRight(s) ==
  CASE s # <<>> /\ s[Len(s)] \in Whitespace ->
         TrimRight(SubSeq(s, 1, Len(s) - 1))
    [] OTHER -> s

Trim(s) == TrimRight(TrimLeft(s))

(***************************************************************************)
(* Outcomes of a call.                                                     *)
(***************************************************************************)
Ok(v) == [err |-> "none", line |-> 0, val |-> v]
Throw(e, l) == [err |-> e, line |-> l, val |-> -1]

(***************************************************************************)
(* Search terms: a one-character string, or a regular expression tested    *)
(* against one character.                                                  *)
(***************************************************************************)
StrTerm(c) == [kind |-> "string", pat |-> c]
ReTerm(p) == [kind |-> "regexp", pat |-> p]

\* RegExp.prototype.test on one character, for the expressions the parser uses.
RegExpTest(p, char) ==
  CASE p = "\\S" -> char \notin Whitespace
    [] p = ";|:|\\(" -> char \in {";", ":", "("}
    [] p = ",|:" -> char \in {",", ":"}
    [] p = ";|:" -> char \in {";", ":"}
    [] OTHER -> FALSE

TermMatches(term, char) ==
  IF term.kind = "regexp" THEN RegExpTest(term.pat, char) ELSE char = term.pat

OBJECT_BRACKETS == <<"{", "}">>
ARRAY_BRACKETS == <<"[", "]">>
GENERIC_BRACKETS == <<"<", ">">>
ROUND_BRACKETS == <<"(", ")">>

(***************************************************************************)
(* findClosing                                                             *)
(***************************************************************************)
\* lineOf counting the newlines of the whole text instead of those before `start`.
lineOfWholeText(s, i, l, line) ==
  line + Cardinality({k \in i..(Len(s) - 1) : charAt(s, k) = "\n"})

\* The line of the error message: the for loop from i to l adds to `line` the
\* newlines it meets.
lineOf(s, i, l, line) ==
  line + Cardinality({k \in i..(l - 1) : charAt(s, k) = "\n"})

\* findClosingLoop without the count of nested opening brackets.
RECURSIVE findClosingLoopFlat(_, _, _, _, _)
findClosingLoopFlat(s, start, offset, brackets, opened) ==
  LET bracketAt(i) == charAt(s, i) \in {brackets[1], brackets[2]}
      turn(at) ==
        CASE charAt(s, at) = brackets[2] -> Ok(at)
          [] OTHER -> findClosingLoopFlat(s, start, at + 1, brackets, opened)
  IN
  IF offset < 0 \/ \A i \in offset..(Len(s) - 1) : ~bracketAt(i)
  THEN Throw("SyntaxError", lineOf(s, 0, start, 1))
  ELSE turn(CHOOSE i \in offset..(Len(s) - 1) :
              bracketAt(i) /\ \A j \in offset..(i - 1) : ~bracketAt(j))

\* The while loop of findClosing, entered with offset already incremented.
\* The turns that meet neither bracket only move the offset on, so each turn
\* here starts at the next bracket of the pair, `at`; without one the text
\* runs out and the loop ends.
RECURSIVE findClosingLoop(_, _, _, _, _)
findClosingLoop(s, start, offset, brackets, opened) ==
  LET bracketAt(i) == charAt(s, i) \in {brackets[1], brackets[2]}
      turn(at) ==
        CASE charAt(s, at) = brackets[1] ->
               findClosingLoop(s, start, at + 1, brackets, opened + 1)
          [] charAt(s, at) # brackets[1] /\ opened - 1 <= 0 -> Ok(at)
          [] OTHER -> findClosingLoop(s, start, at + 1, brackets, opened - 1)
  IN
  IF offset < 0 \/ \A i \in offset..(Len(s) - 1) : ~bracketAt(i)
  THEN Throw("SyntaxError", lineOf(s, 0, start, 1))
  ELSE turn(CHOOSE i \in offset..(Len(s) - 1) :
              bracketAt(i) /\ \A j \in offset..(i - 1) : ~bracketAt(j))

findClosing(s, offset, brackets) ==
  findClosingLoop(s, offset, offset + 1, brackets, 1)

(***************************************************************************)
(* goTo                                                                    *)
(***************************************************************************)
\* The backtick character, which a TLA+ string cannot hold.
BACKTICK == "backtick"
\* stringOpen = false
NoString == "false"
\* prevChar = null
NoChar == "null"

\* The new value of stringOpen.
openString(char, prevChar, stringOpen) ==
  IF prevChar = "\\" THEN stringOpen
  ELSE IF stringOpen = char THEN NoString
  ELSE IF stringOpen = NoString THEN char
  ELSE stringOpen

bracketsOf(char) ==
  CASE char = "{" -> OBJECT_BRACKETS
    [] char = "[" -> ARRAY_BRACKETS
    [] char = "<" -> GENERIC_BRACKETS
    [] char = "(" -> ROUND_BRACKETS

\* goToLoop reading the interior of brackets instead of jumping over it.
RECURSIVE goToLoopNoSkip(_, _, _, _, _)
goToLoopNoSkip(s, term, offset, prevChar, stringOpen) ==
  LET char == charAt(s, offset)
      hit == char # "" /\ stringOpen = NoString /\ TermMatches(term, char)
  IN
  CASE char = "" -> Ok(-1)
    [] hit -> Ok(offset)
    [] ~hit /\ char \in {"'", BACKTICK, "\""} ->
         goToLoopNoSkip(s, term, offset + 1, char,
                        openString(char, prevChar, stringOpen))
    [] OTHER -> goToLoopNoSkip(s, term, offset + 1, char, stringOpen)

\* goToLoop catching the SyntaxError of findClosing and giving -1 for it.
RECURSIVE goToLoopRecovering(_, _, _, _, _)
goToLoopRecovering(s, term, offset, prevChar, stringOpen) ==
  LET char == charAt(s, offset)
      hit == char # "" /\ stringOpen = NoString /\ TermMatches(term, char)
  IN
  CASE char = "" -> Ok(-1)
    [] hit -> Ok(offset)
    [] ~hit /\ char \in {"{", "[", "<", "("} ->
         LET skip(closing) ==
               IF closing.err # "none" THEN Ok(-1)
               ELSE goToLoopRecovering(s, term, closing.val + 1, char, stringOpen)
         IN skip(findClosing(s, offset, bracketsOf(char)))
    [] ~hit /\ char \in {"'", BACKTICK, "\""} ->
         goToLoopRecovering(s, term, offset + 1, char,
                  openString(char, prevChar, stringOpen))
    [] OTHER -> goToLoopRecovering(s, term, offset + 1, char, stringOpen)

\* The while loop of goTo.
RECURSIVE goToLoop(_, _, _, _, _)
goToLoop(s, term, offset, prevChar, stringOpen) ==
  LET char == charAt(s, offset)
      hit == char # "" /\ stringOpen = NoString /\ TermMatches(term, char)
  IN
  CASE char = "" -> Ok(-1)
    [] hit -> Ok(offset)
    [] ~hit /\ char \in {"{", "[", "<", "("} ->
         LET skip(closing) ==
               IF closing.err # "none" THEN closing
               ELSE goToLoop(s, term, closing.val + 1, char, stringOpen)
         IN skip(findClosing(s, offset, bracketsOf(char)))
    [] ~hit /\ char \in {"'", BACKTICK, "\""} ->
         goToLoop(s, term, offset + 1, char,
                  openString(char, prevChar, stringOpen))
    [] OTHER -> goToLoop(s, term, offset + 1, char, stringOpen)

goTo(s, term, offset) == goToLoop(s, term, offset, NoChar, NoString)

(***************************************************************************)
(* split                                                                   *)
(***************************************************************************)
RECURSIVE splitLoop(_, _, _, _, _)
splitLoop(s, term, trim, start, chunks) ==
  LET pushed(comma) ==
        LET chunk == IF comma = -1 THEN substr(s, start)
                     ELSE slice(s, start, comma)
        IN Append(chunks, IF trim THEN Trim(chunk) ELSE chunk)
      turn(found) ==
        IF found.err # "none" THEN found
        ELSE IF found.val + 1 > 0
        THEN splitLoop(s, term, trim, found.val + 1, pushed(found.val))
        ELSE Ok(pushed(found.val))
  IN turn(goTo(s, term, start))

split(s, term, trim) == splitLoop(s, term, trim, 0, <<>>)

(***************************************************************************)
(* getType                                                                 *)
(***************************************************************************)
\* A type is a text; null is the empty text, which getType never records as
\* a member (it pushes a member only when type.length > 0).
NULL == <<>>

TYPES_BOOLEAN == <<"B", "o", "o", "l", "e", "a", "n">>
TYPES_NUMBER == <<"N", "u", "m", "b", "e", "r">>
TYPES_STRING == <<"S", "t", "r", "i", "n", "g">>
TYPES_DATE == <<"D", "a", "t", "e">>
TYPES_OBJECT == <<"O", "b", "j", "e", "c", "t">>
TYPES_ARRAY == <<"A", "r", "r", "a", "y">>

\* String.prototype.indexOf(needle) !== -1
Contains(hay, needle) ==
  \E i \in 0..(Len(hay) - Len(needle)) :
    SubSeq(hay, i + 1, i + Len(needle)) = needle

\* String(null), the text indexOf searches for when handed null.
NullText == <<"n", "u", "l", "l">>

PRIMITIVES == <<"b", "o", "o", "l", "e", "a", "n", "|", "n", "u", "m", "b", "e", "r", "|", "s", "t", "r", "i", "n", "g", "|", "o", "b", "j", "e", "c", "t">>
IGNORED == <<"v", "o", "i", "d", "|", "n", "u", "l", "l", "|", "u", "n", "d", "e", "f", "i", "n", "e", "d", "|", "n", "e", "v", "e", "r">>

TYPES_IS_PRIMITIVE(type) ==
  Contains(PRIMITIVES, IF type = NULL THEN NullText ELSE type)

TYPES_IS_IGNORED(type) ==
  Contains(IGNORED, IF type = NULL THEN NullText ELSE type)

\* String.prototype.toUpperCase on one character.
LowerCase == <<"a", "b", "c", "d", "e", "f", "g", "h", "i", "j", "k", "l", "m", "n", "o", "p", "q", "r", "s", "t", "u", "v", "w", "x", "y", "z">>
UpperCase == <<"A", "B", "C", "D", "E", "F", "G", "H", "I", "J", "K", "L", "M", "N", "O", "P", "Q", "R", "S", "T", "U", "V", "W", "X", "Y", "Z">>
toUpperCase(c) ==
  IF \E k \in 1..26 : LowerCase[k] = c
  THEN UpperCase[CHOOSE k \in 1..26 : LowerCase[k] = c]
  ELSE c

\* reducer without the test for ignored keywords.
reducerNoIgnored(type, result) ==
  IF result = TYPES_OBJECT \/ type = NULL THEN result
  ELSE IF result # type THEN TYPES_OBJECT
  ELSE type

\* The callback of types.reduce: `type` is the running result, `result` the
\* member at hand.
reducer(type, result) ==
  IF result = TYPES_OBJECT \/ type = NULL THEN result
  ELSE IF TYPES_IS_IGNORED(result) THEN type
  ELSE IF result # type THEN TYPES_OBJECT
  ELSE type

RECURSIVE reduceTypes(_, _)
reduceTypes(types, type) ==
  IF types = <<>> THEN type
  ELSE reduceTypes(Tail(types), reducer(type, Head(types)))

capitalize(type) ==
  IF TYPES_IS_PRIMITIVE(type)
  THEN <<toUpperCase(charAt(type, 0))>> \o substr(type, 1)
  ELSE type

\* What follows the while loop of getType.
getTypeResult(types, index) ==
  Ok([type |-> capitalize(reduceTypes(types, NULL)), end |-> index])

pushType(types, type) ==
  IF Len(type) > 0 THEN Append(types, type) ELSE types

\* The while loop of getType.  The index only goes back in the case of a
\* double quote with no double quote after it, the last of the text, where
\* the loop restarts at offset 0; coming to that quote a second time, the
\* loop repeats the turns it made since the first, without end ("hang").
RECURSIVE getTypeLoop(_, _, _, _, _)
getTypeLoop(s, start, index, types, restarted) ==
  LET char == charAt(s, index) IN
  CASE char = "" -> getTypeResult(types, index)
    [] char \in {")", ",", ";"} ->
         getTypeResult(pushType(types, Trim(slice(s, start, index))), index)
    [] char = "{" ->
         LET skip(closing) ==
               IF closing.err # "none" THEN closing
               ELSE getTypeLoop(s, closing.val + 1, closing.val + 1,
                                Append(types, TYPES_OBJECT), restarted)
         IN skip(findClosing(s, index, OBJECT_BRACKETS))
    [] char = "[" ->
         LET skip(closing) ==
               IF closing.err # "none" THEN closing
               ELSE getTypeLoop(s, closing.val + 1, closing.val + 1,
                                Append(types, TYPES_ARRAY), restarted)
         IN skip(findClosing(s, index, ARRAY_BRACKETS))
    [] char = "<" ->
         LET skip(closing) ==
               IF closing.err # "none" THEN closing
               ELSE IF closing.val = -1 THEN Ok([type |-> NULL, end |-> -1])
               ELSE getTypeLoop(s, closing.val + 1, closing.val + 1,
                                pushType(types, Trim(slice(s, start, index))),
                                restarted)
         IN skip(findClosing(s, index, GENERIC_BRACKETS))
    [] char = "\"" ->
         LET quote == indexOf(s, "\"", index + 1) IN
         IF quote = -1 /\ restarted THEN Throw("hang", 0)
         ELSE getTypeLoop(s, quote + 1, quote + 1,
                          Append(types, TYPES_STRING),
                          restarted \/ quote = -1)
    [] char \in {"|", "&"} ->
         getTypeLoop(s, index + 1, index + 1,
                     pushType(types, Trim(slice(s, start, index))), restarted)
    [] OTHER -> getTypeLoop(s, start, index + 1, types, restarted)

getType(s, offset) ==
  LET loop(first) ==
        IF first.err # "none" THEN first
        ELSE getTypeLoop(s, first.val, first.val, <<>>, FALSE)
  IN loop(goTo(s, ReTerm("\\S"), offset))

(***************************************************************************)
(* regExpClosestIndexOf, getPropertyNoType, parseParams, buildField        *)
(***************************************************************************)
\* found = null
NotFound == "null"

regExpClosestIndexOf(s, term, offset) ==
  LET hits == {i \in offset..(Len(s) - 1) : RegExpTest(term, charAt(s, i))}
      at(index) == [index |-> index, found |-> charAt(s, index)]
  IN
  IF offset < 0 \/ \A i \in offset..(Len(s) - 1) :
                     ~RegExpTest(term, charAt(s, i))
  THEN [index |-> -1, found |-> NotFound]
  ELSE at(CHOOSE i \in hits : \A j \in offset..(i - 1) : j \notin hits)

\* String.prototype.split(" "): the pieces between single spaces, `piece`
\* being the one under way.
RECURSIVE splitOnSpace(_, _, _)
splitOnSpace(text, piece, pieces) ==
  CASE text = <<>> -> Append(pieces, piece)
    [] text # <<>> /\ Head(text) = " " ->
         splitOnSpace(Tail(text), <<>>, Append(pieces, piece))
    [] OTHER -> splitOnSpace(Tail(text), Append(piece, Head(text)), pieces)

\* getPropertyNoType taking the first piece for the name instead of the last.
getPropertyNoTypeFirst(s, from, to) ==
  LET pieces == splitOnSpace(slice(s, from, to), <<>>, <<>>) IN
  [name |-> pieces[1], modifiers |-> SubSeq(pieces, 2, Len(pieces))]

getPropertyNoType(s, from, to) ==
  LET pieces == splitOnSpace(slice(s, from, to), <<>>, <<>>) IN
  [name |-> pieces[Len(pieces)],
   modifiers |-> SubSeq(pieces, 1, Len(pieces) - 1)]

\* One turn of the while loop of parseParams, firstStop being the stop found
\* from `from`.
RECURSIVE parseParamsLoop(_, _, _, _, _)
parseParam(s, from, to, params, turns, firstStop) ==
  CASE firstStop.index = -1 ->
         Ok(Append(params, [name |-> Trim(slice(s, from, to)), type |-> NULL]))
    [] firstStop.index # -1 /\ firstStop.found = ":" ->
         LET typed(found) ==
               IF found.err # "none" THEN found
               ELSE parseParamsLoop(s, found.val.end + 1, to,
                      Append(params,
                             [name |-> Trim(slice(s, from, firstStop.index)),
                              type |-> found.val.type]),
                      turns + 1)
         IN typed(getType(s, firstStop.index + 1))
    [] OTHER ->
         parseParamsLoop(s, firstStop.index + 1, to,
           Append(params, [name |-> Trim(slice(s, from, firstStop.index)),
                           type |-> NULL]),
           turns + 1)

\* The while loop of parseParams.  Each turn is decided by `from` alone and
\* runs only while 0 <= from < to, so more turns than the text has offsets
\* repeat a value of `from`: a loop without end ("hang").
parseParamsLoop(s, from, to, params, turns) ==
  CASE ~(from < to) -> Ok(params)
    [] from < to /\ turns > Len(s) + 1 -> Throw("hang", 0)
    [] OTHER -> parseParam(s, from, to, params, turns,
                           regExpClosestIndexOf(s, ",|:", from))

parseParams(s, from, to) == parseParamsLoop(s, from, to, <<>>, 0)

\* arrToObject: the modifiers become the keys of an object.
arrToObject(arr) == {arr[i] : i \in 1..Len(arr)}

\* A field configuration: its name, its parameters when it has any
\* (hasParams: an empty list is still a list), its type (NULL: none) and the
\* keys its modifiers set.
buildField(mods, name, hasParams, params, type) ==
  [name |-> name, hasParams |-> hasParams, params |-> params, type |-> type,
   flags |-> arrToObject(mods)]

(***************************************************************************)
(* parseDTS                                                                *)
(***************************************************************************)
Digits == <<"0", "1", "2", "3", "4", "5", "6", "7", "8", "9">>
InText(c, text) == \E k \in 1..Len(text) : text[k] = c

\* [\w$_]
IsWord(c) ==
  InText(c, LowerCase) \/ InText(c, UpperCase) \/ InText(c, Digits)
    \/ c \in {"_", "$"}

\* The end of the longest run of word characters, of whitespace, from i.
RECURSIVE wordRun(_, _)
wordRun(s, i) ==
  CASE IsWord(charAt(s, i)) -> wordRun(s, i + 1)
    [] OTHER -> i

RECURSIVE spaceRun(_, _)
spaceRun(s, i) ==
  CASE charAt(s, i) \in Whitespace -> spaceRun(s, i + 1)
    [] OTHER -> i

startsWith(s, i, text) ==
  i + Len(text) <= Len(s) /\ SubSeq(s, i + 1, i + Len(text)) = text

\* The match of /[\s\n]class ([\w$_]+)(?:[\s]+extends ([^{]+))?[\s]*\{/
\* that starts at offset i, if any.  The name is the longest run of word
\* characters (a shorter one is followed by a word character, which neither
\* alternative accepts); the parent is all the text from `extends ` to the
\* next brace, which [^{]+ takes whole before [\s]* gets any of it.
headerAt(s, i) ==
  LET nameFrom == i + 7
      nameTo == wordRun(s, nameFrom)
      spaceTo == spaceRun(s, nameTo)
      parentFrom == spaceTo + 8
      brace == indexOf(s, "{", parentFrom)
  IN
  IF ~(/\ charAt(s, i) \in Whitespace
       /\ startsWith(s, i + 1, <<"c", "l", "a", "s", "s", " ">>)
       /\ nameTo > nameFrom)
  THEN [matched |-> FALSE, className |-> NULL, parent |-> NULL, end |-> -1]
  ELSE IF /\ spaceTo > nameTo
          /\ startsWith(s, spaceTo, <<"e", "x", "t", "e", "n", "d", "s", " ">>)
          /\ brace > parentFrom
  THEN [matched |-> TRUE, className |-> slice(s, nameFrom, nameTo),
        parent |-> slice(s, parentFrom, brace), end |-> brace + 1]
  ELSE IF charAt(s, spaceTo) = "{"
  THEN [matched |-> TRUE, className |-> slice(s, nameFrom, nameTo),
        parent |-> NULL, end |-> spaceTo + 1]
  ELSE [matched |-> FALSE, className |-> NULL, parent |-> NULL, end |-> -1]

\* src.match: the leftmost match.
matchHeader(s, i) ==
  IF \A k \in i..(Len(s) - 1) : ~headerAt(s, k).matched
  THEN [matched |-> FALSE, className |-> NULL, parent |-> NULL, end |-> -1]
  ELSE headerAt(s, CHOOSE k \in i..(Len(s) - 1) :
                     /\ headerAt(s, k).matched
                     /\ \A j \in i..(k - 1) : ~headerAt(s, j).matched)

\* The for loop of parseDTS from `let { type, end: typeEnd } = getType(...)`
\* on: the type of the member, the value of ptr before the loop's ++ptr.
typeAndNext(s, ptr) ==
  LET next(found) ==
        IF found.err # "none" THEN found
        ELSE Ok([type |-> found.val.type,
                 ptr |-> indexOf(s, ";", found.val.end)])
  IN next(getType(s, ptr + 1))

RECURSIVE parseDTSLoop(_, _, _, _, _, _)
\* The method branch from `let closing = ...` on, the parameters parsed.
parseMethod(s, field, params, closing, end, properties, methods, turns) ==
  IF closing.found = ";"
  THEN parseDTSLoop(s, closing.index + 1 + 1, end, properties,
         Append(methods,
                buildField(field.modifiers, field.name, TRUE, params, NULL)),
         turns)
  ELSE LET push(typed) ==
             IF typed.err # "none" THEN typed
             ELSE parseDTSLoop(s, typed.val.ptr + 1, end, properties,
                    Append(methods,
                           buildField(field.modifiers, field.name, TRUE,
                                      params, typed.val.type)),
                    turns)
       IN push(typeAndNext(s, closing.index + 1))

\* The body of the for loop after `let { name, modifiers } = ...`, `stop`
\* being the stop found from `from` and `field` the name and modifiers.
parseMember(s, stop, field, end, properties, methods, turns) ==
  CASE stop.found = "(" ->
         LET method(parenEnd, params) ==
               IF params.err # "none" THEN params
               ELSE parseMethod(s, field, params.val,
                      regExpClosestIndexOf(s, ";|:", parenEnd.val),
                      end, properties, methods, turns)
             parameters(parenEnd) ==
               IF parenEnd.err # "none" THEN parenEnd
               ELSE method(parenEnd,
                           parseParams(s, stop.index + 1, parenEnd.val))
         IN parameters(findClosing(s, stop.index, ROUND_BRACKETS))
    [] stop.found = ";" ->
         parseDTSLoop(s, stop.index + 1, end,
           Append(properties,
                  buildField(field.modifiers, field.name, FALSE, <<>>, NULL)),
           methods, turns)
    [] OTHER ->
         LET push(typed) ==
               IF typed.err # "none" THEN typed
               ELSE parseDTSLoop(s, typed.val.ptr + 1, end,
                      Append(properties,
                             buildField(field.modifiers, field.name, FALSE,
                                        <<>>, typed.val.type)),
                      methods, turns)
         IN push(typeAndNext(s, stop.index))

\* The body of the for loop after `let from = ptr = goTo(...)`.
parseFrom(s, from, stop, end, properties, methods, turns) ==
  IF charAt(s, from) = "}"
  THEN Ok([properties |-> properties, methods |-> methods])
  ELSE parseMember(s, stop, getPropertyNoType(s, from, stop.index), end,
                   properties, methods, turns)

\* The for loop of parseDTS, at its condition, `turns` being the values ptr
\* had there before.  Each turn is decided by ptr alone, so a turn that starts
\* where an earlier one started repeats what followed it: a loop without end
\* ("hang"), which pushes a descriptor every time round.
parseDTSLoop(s, ptr, end, properties, methods, turns) ==
  CASE ~(ptr < end) -> Ok([properties |-> properties, methods |-> methods])
    [] ptr < end /\ ptr \in turns -> Throw("hang", 0)
    [] OTHER ->
         LET member(skipped) ==
               IF skipped.err # "none" THEN skipped
               ELSE parseFrom(s, skipped.val,
                      regExpClosestIndexOf(s, ";|:|\\(", skipped.val),
                      end, properties, methods, turns \cup {ptr})
         IN member(goTo(s, ReTerm("\\S"), ptr))

\* The class header found, the rest of parseDTS.
parseBody(s, match) ==
  IF ~match.matched THEN Throw("Error", 0)
  ELSE LET result(parsed) ==
             IF parsed.err # "none" THEN parsed
             ELSE Ok([className |-> match.className, parent |-> match.parent,
                      properties |-> parsed.val.properties,
                      methods |-> parsed.val.methods])
       IN result(parseDTSLoop(s, match.end, Len(s), <<>>, <<>>, {}))

parseDTS(s) == parseBody(s, matchHeader(s, 0))

(***************************************************************************)
(* parseJS: the class body and its constructor.                            *)
(***************************************************************************)
\* String.prototype.indexOf(text, from).
indexOfString(s, text, from) ==
  LET f == Max(from, 0)
      hits == {i \in f..(Len(s) - Len(text)) : startsWith(s, i, text)}
  IN IF hits = {} THEN -1 ELSE CHOOSE i \in hits : \A j \in hits : i <= j

\* No line terminator in s[from .. to - 1]: what a run of `.` may cover.
oneLine(s, from, to) == \A k \in from..(to - 1) : charAt(s, k) # "\n"

\* The value of a capture group that took no part in the match, of a
\* destructured element that is missing.
undefined == <<"undefined">>

NoMatch ==
  [matched |-> FALSE, index |-> -1, length |-> 0, generatedName |-> undefined]

\* The match of /var A = \(function \((?:_super)?\) {/ that starts at i.
ES5At(s, className, i) ==
  LET head == <<"v", "a", "r", " ">> \o className \o <<" ", "=", " ", "(", "f", "u", "n", "c", "t", "i", "o", "n", " ", "(">>
      plain == head \o <<")", " ", "{">>
      derived == head \o <<"_", "s", "u", "p", "e", "r", ")", " ", "{">>
  IN CASE startsWith(s, i, derived) ->
            [matched |-> TRUE, index |-> i, length |-> Len(derived),
             generatedName |-> undefined]
       [] startsWith(s, i, plain) ->
            [matched |-> TRUE, index |-> i, length |-> Len(plain),
             generatedName |-> undefined]
       [] OTHER -> NoMatch

matchES5(s, className) ==
  LET hits == {i \in 0..(Len(s) - 1) : ES5At(s, className, i).matched}
  IN IF hits = {} THEN NoMatch
     ELSE ES5At(s, className, CHOOSE i \in hits : \A j \in hits : i <= j)

\* Where /class A(?: extends .+?)? {/ ends when it starts at p; -1 if it does
\* not match there.  The parent is the shortest run of one or more characters
\* of the line that ` {` follows.
classEnd(s, className, p) ==
  LET q == p + 6 + Len(className)
      from == q + 9
      stops == {j \in (from + 1)..(Len(s) - 2) :
                  startsWith(s, j, <<" ", "{">>) /\ oneLine(s, from, j)}
  IN CASE ~startsWith(s, p, <<"c", "l", "a", "s", "s", " ">> \o className) -> -1
       [] startsWith(s, q, <<" ", "e", "x", "t", "e", "n", "d", "s", " ">>) /\ stops # {} ->
            (CHOOSE j \in stops : \A k \in stops : j <= k) + 2
       [] startsWith(s, q, <<" ", "{">>) -> q + 2
       [] OTHER -> -1

\* The match of /(?:let (A[\S]*) = )?class A(?: extends .+?)? {/ that starts
\* at i.  [\S]* takes the whole run of non-blank characters: a shorter one is
\* followed by a non-blank character, where ` = ` has to start.
ES6At(s, className, i) ==
  LET stops == {k \in (i + 4 + Len(className))..Len(s) :
                  k = Len(s) \/ charAt(s, k) \in Whitespace}
      nameEnd == CHOOSE k \in stops : \A j \in stops : k <= j
      named == /\ startsWith(s, i, <<"l", "e", "t", " ">> \o className)
               /\ startsWith(s, nameEnd, <<" ", "=", " ">>)
               /\ classEnd(s, className, nameEnd + 3) # -1
  IN CASE named ->
            [matched |-> TRUE, index |-> i,
             length |-> classEnd(s, className, nameEnd + 3) - i,
             generatedName |-> slice(s, i + 4, nameEnd)]
       [] ~named /\ classEnd(s, className, i) # -1 ->
            [matched |-> TRUE, index |-> i,
             length |-> classEnd(s, className, i) - i,
             generatedName |-> undefined]
       [] OTHER -> NoMatch

matchES6(s, className) ==
  LET hits == {i \in 0..(Len(s) - 1) : ES6At(s, className, i).matched}
  IN IF hits = {} THEN NoMatch
     ELSE ES6At(s, className, CHOOSE i \in hits : \A j \in hits : i <= j)

\* findClassBody once the header is matched: the closing brace of the body,
\* for the prototype convention the closing parenthesis of the call that
\* follows it, and the semicolon after that.
classBodyOf(s, match, isES6) ==
  LET last(paren) ==
        IF paren.err # "none" THEN paren
        ELSE Ok([isES6 |-> isES6, start |-> match.index,
                 end |-> indexOf(s, ";", paren.val),
                 generatedName |-> match.generatedName])
      outer(brace) ==
        CASE brace.err # "none" -> brace
          [] brace.err = "none" /\ isES6 -> last(brace)
          [] OTHER ->
               last(findClosing(s, indexOf(s, "(", brace.val),
                                ROUND_BRACKETS))
  IN outer(findClosing(s, match.index + match.length, OBJECT_BRACKETS))

\* A findClassBody that looks for the native header first.
findClassBodyNativeFirst(s, className) ==
  CASE matchES6(s, className).matched ->
         classBodyOf(s, matchES6(s, className), TRUE)
    [] ~matchES6(s, className).matched /\ matchES5(s, className).matched ->
         classBodyOf(s, matchES5(s, className), FALSE)
    [] OTHER -> Throw("Error", 0)

\* The prototype-convention header is looked for first, the native one only
\* when it is absent.
findClassBody(s, className) ==
  CASE matchES5(s, className).matched ->
         classBodyOf(s, matchES5(s, className), FALSE)
    [] ~matchES5(s, className).matched /\ matchES6(s, className).matched ->
         classBodyOf(s, matchES6(s, className), TRUE)
    [] OTHER -> Throw("Error", 0)

\* findConstructor: from the pattern to the closing brace of the body that
\* follows its parameter list.
findConstructor(isES6, className, s, classStart) ==
  LET pattern == IF isES6 THEN <<"c", "o", "n", "s", "t", "r", "u", "c", "t", "o", "r", "(">>
                 ELSE <<"f", "u", "n", "c", "t", "i", "o", "n", " ">> \o className \o <<"(">>
      start == indexOfString(s, pattern, classStart)
      body(paren) ==
        IF paren.err # "none" THEN paren
        ELSE LET bounds(brace) ==
                   IF brace.err # "none" THEN brace
                   ELSE Ok([start |-> start, end |-> brace.val])
             IN bounds(findClosing(s, indexOf(s, "{", paren.val),
                                   OBJECT_BRACKETS))
  IN body(findClosing(s, start + Len(pattern) - 1, ROUND_BRACKETS))

(***************************************************************************)
(* parseJS: default values and method bodies.                              *)
(***************************************************************************)
\* names.join("|") inside a group: the alternatives, tried in order; a list
\* without names leaves the group matching the empty text.
alternatives(names) == IF names = <<>> THEN << <<>> >> ELSE names

\* object[key] = value.
put(object, key, value) == (key :> value) @@ object

\* The match of /this\.(x|y) = (.*);\n/ that starts at i: (.*) runs to the
\* end of the line and gives back its last character, which has to be `;`.
valueAt(t, names, i) ==
  LET alts == alternatives(names)
      valueStart(k) == i + 5 + Len(alts[k]) + 3
      lineEnd(k) == indexOf(t, "\n", valueStart(k))
      fits(k) == /\ startsWith(t, i + 5, alts[k] \o <<" ", "=", " ">>)
                 /\ lineEnd(k) # -1
                 /\ lineEnd(k) - 1 >= valueStart(k)
                 /\ charAt(t, lineEnd(k) - 1) = ";"
      fitting == {k \in 1..Len(alts) : fits(k)}
      first == CHOOSE k \in fitting : \A j \in fitting : k <= j
  IN IF ~startsWith(t, i, <<"t", "h", "i", "s", ".">>) \/ fitting = {}
     THEN [matched |-> FALSE, name |-> <<>>, value |-> <<>>, end |-> i]
     ELSE [matched |-> TRUE, name |-> alts[first],
           value |-> slice(t, valueStart(first), lineEnd(first) - 1),
           end |-> lineEnd(first) + 1]

\* A defaultValueAnalyzer that keeps the first value recorded for a name.
RECURSIVE defaultValueAnalyzerKeepFirst(_, _, _, _)
defaultValueAnalyzerKeepFirst(t, names, from, values) ==
  LET hits == {i \in from..(Len(t) - 1) : valueAt(t, names, i).matched}
      record(match) ==
        defaultValueAnalyzerKeepFirst(t, names, match.end,
          IF match.name \in DOMAIN values THEN values
          ELSE put(values, match.name, match.value))
  IN IF hits = {} THEN values
     ELSE record(valueAt(t, names, CHOOSE i \in hits : \A j \in hits : i <= j))

\* defaultValueAnalyzer, applied by replace with the g flag: every match from
\* left to right, none starting inside an earlier one; values[name] = value.
RECURSIVE defaultValueAnalyzer(_, _, _, _)
defaultValueAnalyzer(t, names, from, values) ==
  LET hits == {i \in from..(Len(t) - 1) : valueAt(t, names, i).matched}
      record(match) ==
        defaultValueAnalyzer(t, names, match.end,
                             put(values, match.name, match.value))
  IN IF hits = {} THEN values
     ELSE record(valueAt(t, names, CHOOSE i \in hits : \A j \in hits : i <= j))

\* removeExtend: the pattern is handed to RegExp unescaped, so its
\* parentheses group and the text it matches is `__extendsA, _super;`.
removeExtend(s, className) ==
  LET pattern == <<"_", "_", "e", "x", "t", "e", "n", "d", "s">> \o className \o <<",", " ", "_", "s", "u", "p", "e", "r", ";">>
      at == indexOfString(s, pattern, 0)
  IN IF at = -1 THEN s
     ELSE slice(s, 0, at) \o substr(s, at + Len(pattern))

\* What comes before the parameter list in a method's definition: the name
\* (native), `A.prototype.name = function ` (prototype convention; the dots
\* of the pattern are unescaped and match any character of the line).
boilerAt(s, isES6, className, name, i) ==
  LET dot1 == i + Len(className)
      dot2 == dot1 + 1 + 9
      rest == dot2 + 1
      fn == name \o <<" ", "=", " ", "f", "u", "n", "c", "t", "i", "o", "n">>
      any(k) == charAt(s, k) \notin {"", "\n"}
  IN CASE isES6 /\ startsWith(s, i, name) -> Len(name)
       [] ~isES6 /\ startsWith(s, i, className) /\ any(dot1)
            /\ startsWith(s, dot1 + 1, <<"p", "r", "o", "t", "o", "t", "y", "p", "e">>) /\ any(dot2)
            /\ startsWith(s, rest, fn) ->
              rest + Len(fn) - i
                + (IF charAt(s, rest + Len(fn)) = " "
                      /\ charAt(s, rest + Len(fn) + 1) = "(" THEN 1 ELSE 0)
       [] OTHER -> -1

\* The match of the method pattern that starts at i: the boiler of the first
\* name that fits, `(`, the shortest run of the line that `) {` follows.
methodAt(s, isES6, className, names, i) ==
  LET alts == alternatives(names)
      boiler(k) == boilerAt(s, isES6, className, alts[k], i)
      open(k) == i + boiler(k)
      stops(k) == {j \in (open(k) + 1)..(Len(s) - 3) :
                     startsWith(s, j, <<")", " ", "{">>) /\ oneLine(s, open(k) + 1, j)}
      fits(k) == boiler(k) # -1 /\ charAt(s, open(k)) = "(" /\ stops(k) # {}
      fitting == {k \in 1..Len(alts) : fits(k)}
      first == CHOOSE k \in fitting : \A j \in fitting : k <= j
  IN IF fitting = {}
     THEN [matched |-> FALSE, name |-> <<>>, index |-> i, boiler |-> 0,
           end |-> i]
     ELSE [matched |-> TRUE, name |-> alts[first], index |-> i,
           boiler |-> boiler(first),
           end |-> (CHOOSE j \in stops(first) :
                      \A k \in stops(first) : j <= k) + 3]

\* A methodsAnalyzer whose capture stops before the closing brace.
RECURSIVE methodsAnalyzerOpenEnded(_, _, _, _, _, _, _)
methodsAnalyzerOpenEnded(s, scanned, isES6, className, names, from, methodBodies) ==
  LET hits == {i \in from..(Len(scanned) - 1) :
                 methodAt(scanned, isES6, className, names, i).matched}
      record(match) ==
        LET body(end) ==
              IF end.err # "none" THEN end
              ELSE methodsAnalyzerOpenEnded(s, scanned, isES6, className,
                     names, match.end,
                     put(methodBodies, match.name,
                         Trim(slice(s, match.index + match.boiler, end.val))))
        IN body(findClosing(s, indexOf(s, "{", match.index + match.boiler),
                            OBJECT_BRACKETS))
  IN IF hits = {} THEN Ok(methodBodies)
     ELSE record(methodAt(scanned, isES6, className, names,
                          CHOOSE i \in hits : \A j \in hits : i <= j))

\* methodsAnalyzer, applied by replace with the g flag to `scanned`, the
\* source after removeExtend; the callback reads the source itself.
RECURSIVE methodsAnalyzer(_, _, _, _, _, _, _)
methodsAnalyzer(s, scanned, isES6, className, names, from, methodBodies) ==
  LET hits == {i \in from..(Len(scanned) - 1) :
                 methodAt(scanned, isES6, className, names, i).matched}
      record(match) ==
        LET body(end) ==
              IF end.err # "none" THEN end
              ELSE methodsAnalyzer(s, scanned, isES6, className, names,
                     match.end,
                     put(methodBodies, match.name,
                         Trim(slice(s, match.index + match.boiler,
                                    end.val + 1))))
        IN body(findClosing(s, indexOf(s, "{", match.index + match.boiler),
                            OBJECT_BRACKETS))
  IN IF hits = {} THEN Ok(methodBodies)
     ELSE record(methodAt(scanned, isES6, className, names,
                          CHOOSE i \in hits : \A j \in hits : i <= j))

(***************************************************************************)
(* parseJS: decorators and annotations.                                    *)
(***************************************************************************)
\* Array.prototype.toString: the elements joined by a comma.
RECURSIVE toString(_)
toString(texts) ==
  CASE texts = <<>> -> <<>>
    [] Len(texts) = 1 -> texts[1]
    [] OTHER -> texts[1] \o <<",">> \o toString(Tail(texts))

\* The name and the parameters of one entry of a decoration call.
decorName(decor) ==
  IF indexOf(decor, "(", 0) # -1 THEN slice(decor, 0, indexOf(decor, "(", 0))
  ELSE decor

decorParams(decor) ==
  IF indexOf(decor, "(", 0) # -1
  THEN slice(decor, indexOf(decor, "(", 0) + 1, Len(decor) - 1)
  ELSE undefined

isAnnotation(decor, definedAnnotations) ==
  \E k \in 1..Len(definedAnnotations) : definedAnnotations[k] = decorName(decor)

\* The entries of `decors` that are (wanted) or are not (~wanted) defined
\* annotations, in their order.
RECURSIVE entriesOf(_, _, _)
entriesOf(decors, definedAnnotations, wanted) ==
  CASE decors = <<>> -> <<>>
    [] decors # <<>> /\ isAnnotation(Head(decors), definedAnnotations) = wanted ->
         <<Head(decors)>> \o entriesOf(Tail(decors), definedAnnotations, wanted)
    [] OTHER -> entriesOf(Tail(decors), definedAnnotations, wanted)

fieldDecorators(entries, descriptor) ==
  [k \in 1..Len(entries) |->
     [name |-> decorName(entries[k]), params |-> decorParams(entries[k]),
      descriptor |-> descriptor, src |-> entries[k]]]

classDecorators(entries) ==
  [k \in 1..Len(entries) |->
     [name |-> decorName(entries[k]), params |-> decorParams(entries[k]),
      src |-> entries[k]]]

NoCallMatch ==
  [matched |-> FALSE, definition |-> <<>>, name |-> <<>>,
   descriptor |-> <<>>, end |-> 0]

\* The match of
\*   /[\s]*__decorate\(\[([\W\w]*?)], (A\.prototype), "(.*?)", (.*?)\);/
\* that starts at i.  Each lazy group is the shortest text after which the
\* rest of the pattern still matches; the definition may span lines, the
\* name and the descriptor may not.
fieldCallAt(d, className, i) ==
  LET open == spaceRun(d, i)
      defStart == open + 12
      proto == <<"]", ",", " ">> \o className \o <<".", "p", "r", "o", "t", "o", "t", "y", "p", "e", ",", " ", "\"">>
      descEnds(m) == {n \in (m + 3)..(Len(d) - 2) :
                        startsWith(d, n, <<")", ";">>) /\ oneLine(d, m + 3, n)}
      nameEnds(k) == {m \in (k + Len(proto))..(Len(d) - 3) :
                        /\ startsWith(d, m, <<"\"", ",", " ">>)
                        /\ oneLine(d, k + Len(proto), m)
                        /\ descEnds(m) # {}}
      defEnds == {k \in defStart..(Len(d) - Len(proto)) :
                    startsWith(d, k, proto) /\ nameEnds(k) # {}}
      least(S) == CHOOSE x \in S : \A y \in S : x <= y
      found(k, m) ==
        [matched |-> TRUE, definition |-> slice(d, defStart, k),
         name |-> slice(d, k + Len(proto), m),
         descriptor |-> slice(d, m + 3, least(descEnds(m))),
         end |-> least(descEnds(m)) + 2]
      named(k) == found(k, least(nameEnds(k)))
  IN IF ~startsWith(d, open, <<"_", "_", "d", "e", "c", "o", "r", "a", "t", "e", "(", "[">>) \/ defEnds = {}
     THEN NoCallMatch
     ELSE named(least(defEnds))

\* What the callback of fieldDecoratorsAnalyzer returns for its match.
fieldCallText(used, className, name, descriptor) ==
  IF used = <<>> THEN <<>>
  ELSE <<"\n", "_", "_", "d", "e", "c", "o", "r", "a", "t", "e", "(", "[">> \o toString(used) \o <<"]", ",", " ">> \o className
         \o <<".", "p", "r", "o", "t", "o", "t", "y", "p", "e", ",", " ", "\"">> \o name \o <<"\"", ",", " ">> \o descriptor \o <<")", ";">>

\* fieldDecoratorsAnalyzer, applied by replace with the g flag to d from
\* offset `from` on; `out` is the rewritten text so far.
RECURSIVE fieldDecoratorsAnalyzer(_, _, _, _, _, _, _)
fieldDecoratorsAnalyzer(d, className, definedAnnotations, from, out, decorators, annotations) ==
  LET hits == {i \in from..(Len(d) - 1) : fieldCallAt(d, className, i).matched}
      at == CHOOSE i \in hits : \A j \in hits : i <= j
      record(match) ==
        LET filed(decors) ==
              IF decors.err # "none" THEN decors
              ELSE fieldDecoratorsAnalyzer(d, className, definedAnnotations,
                     match.end,
                     out \o slice(d, from, at)
                         \o fieldCallText(
                              entriesOf(decors.val, definedAnnotations, FALSE),
                              className, match.name, match.descriptor),
                     put(decorators, match.name,
                         fieldDecorators(
                           entriesOf(decors.val, definedAnnotations, FALSE),
                           match.descriptor)),
                     put(annotations, match.name,
                         fieldDecorators(
                           entriesOf(decors.val, definedAnnotations, TRUE),
                           match.descriptor)))
        IN filed(split(Trim(match.definition), StrTerm(","), TRUE))
  IN IF hits = {}
     THEN Ok([src |-> out \o substr(d, from), decorators |-> decorators,
              annotations |-> annotations])
     ELSE record(fieldCallAt(d, className, at))

\* The match of /[\s]*A = (?:.*? = )?__decorate\(\[([\W\w]*?)], (A)\);/
\* that starts at i.
classCallAt(d, className, i) ==
  LET open == spaceRun(d, i)
      p == open + Len(className) + 3
      tail == <<"]", ",", " ">> \o className \o <<")", ";">>
      defEnds(q) == {k \in (q + 12)..(Len(d) - Len(tail)) :
                       startsWith(d, k, tail)}
      callAt(q) == startsWith(d, q, <<"_", "_", "d", "e", "c", "o", "r", "a", "t", "e", "(", "[">>) /\ defEnds(q) # {}
      aliases == {a \in p..(Len(d) - 3) :
                    /\ startsWith(d, a, <<" ", "=", " ">>)
                    /\ oneLine(d, p, a)
                    /\ callAt(a + 3)}
      least(S) == CHOOSE x \in S : \A y \in S : x <= y
      found(q) ==
        [matched |-> TRUE, definition |-> slice(d, q + 12, least(defEnds(q))),
         name |-> <<>>, descriptor |-> <<>>,
         end |-> least(defEnds(q)) + Len(tail)]
  IN CASE ~startsWith(d, open, className \o <<" ", "=", " ">>) -> NoCallMatch
       [] startsWith(d, open, className \o <<" ", "=", " ">>) /\ aliases # {} ->
            found(least(aliases) + 3)
       [] startsWith(d, open, className \o <<" ", "=", " ">>) /\ aliases = {}
            /\ callAt(p) -> found(p)
       [] OTHER -> NoCallMatch

\* What the callback of classDecoratorsAnalyzer returns for its match;
\* `generated` is the callback's generatedName after its update.
classCallText(used, className, generated) ==
  IF used = <<>> THEN <<>>
  ELSE <<"\n">> \o className \o <<" ", "=", " ">> \o generated \o <<"_", "_", "d", "e", "c", "o", "r", "a", "t", "e", "(", "[">>
         \o toString(used) \o <<"]", ",", " ">> \o className \o <<")", ";">>

\* The callback's update of its generatedName: ` = ` is appended to a name,
\* a missing or empty one becomes the empty text.
generatedPrefix(generatedName) ==
  IF generatedName \in {undefined, <<>>} THEN <<>>
  ELSE generatedName \o <<" ", "=", " ">>

\* classDecoratorsAnalyzer, applied by replace with the g flag.
RECURSIVE classDecoratorsAnalyzer(_, _, _, _, _, _, _, _)
classDecoratorsAnalyzer(d, className, definedAnnotations, generatedName, from, out, decorators, annotations) ==
  LET hits == {i \in from..(Len(d) - 1) : classCallAt(d, className, i).matched}
      at == CHOOSE i \in hits : \A j \in hits : i <= j
      record(match) ==
        LET filed(decors) ==
              IF decors.err # "none" THEN decors
              ELSE classDecoratorsAnalyzer(d, className, definedAnnotations,
                     IF entriesOf(decors.val, definedAnnotations, FALSE) = <<>>
                     THEN generatedName
                     ELSE generatedPrefix(generatedName),
                     match.end,
                     out \o slice(d, from, at)
                         \o classCallText(
                              entriesOf(decors.val, definedAnnotations, FALSE),
                              className, generatedPrefix(generatedName)),
                     put(decorators, <<"c", "l", "a", "s", "s">>,
                         classDecorators(
                           entriesOf(decors.val, definedAnnotations, FALSE))),
                     put(annotations, <<"c", "l", "a", "s", "s">>,
                         classDecorators(
                           entriesOf(decors.val, definedAnnotations, TRUE))))
        IN filed(split(Trim(match.definition), StrTerm(","), TRUE))
  IN IF hits = {}
     THEN Ok([src |-> out \o substr(d, from), decorators |-> decorators,
              annotations |-> annotations])
     ELSE record(classCallAt(d, className, at))

(***************************************************************************)
(* parseJS.                                                                *)
(***************************************************************************)
\* An object without keys.
EmptyObject == <<>>

\* parseJS from the decorators on, were the first `__decorate([` looked for
\* from the start of the text and not from the end of the constructor.
parseDecoratorsFromStart(s, dtsData, definedAnnotations, generatedName, constructorEnd, values, methodBodies) ==
  LET decorStart == indexOfString(s, <<"_", "_", "d", "e", "c", "o", "r", "a", "t", "e", "(", "[">>, 0)
      result(classes) ==
        IF classes.err # "none" THEN classes
        ELSE Ok([generatedName |-> generatedName, values |-> values,
                 methodBodies |-> methodBodies,
                 decorators |-> classes.val.decorators,
                 annotations |-> classes.val.annotations,
                 src |-> slice(s, 0, decorStart) \o classes.val.src])
      classLevel(fields) ==
        IF fields.err # "none" THEN fields
        ELSE result(classDecoratorsAnalyzer(fields.val.src, dtsData.className,
                      definedAnnotations, generatedName, 0, <<>>,
                      fields.val.decorators, fields.val.annotations))
  IN classLevel(fieldDecoratorsAnalyzer(substr(s, decorStart),
                  dtsData.className, definedAnnotations, 0, <<>>,
                  EmptyObject, EmptyObject))

\* parseJS from the decorators on: the text from the first `__decorate([`
\* after the constructor is rewritten, what is before it is kept.
parseDecorators(s, dtsData, definedAnnotations, generatedName, constructorEnd, values, methodBodies) ==
  LET decorStart == indexOfString(s, <<"_", "_", "d", "e", "c", "o", "r", "a", "t", "e", "(", "[">>, constructorEnd)
      result(classes) ==
        IF classes.err # "none" THEN classes
        ELSE Ok([generatedName |-> generatedName, values |-> values,
                 methodBodies |-> methodBodies,
                 decorators |-> classes.val.decorators,
                 annotations |-> classes.val.annotations,
                 src |-> slice(s, 0, decorStart) \o classes.val.src])
      classLevel(fields) ==
        IF fields.err # "none" THEN fields
        ELSE result(classDecoratorsAnalyzer(fields.val.src, dtsData.className,
                      definedAnnotations, generatedName, 0, <<>>,
                      fields.val.decorators, fields.val.annotations))
  IN classLevel(fieldDecoratorsAnalyzer(substr(s, decorStart),
                  dtsData.className, definedAnnotations, 0, <<>>,
                  EmptyObject, EmptyObject))

\* parseJS once the class body is found.
parseClass(s, dtsData, definedAnnotations, body) ==
  LET methods(ctor) ==
        LET decorated(bodies) ==
              IF bodies.err # "none" THEN bodies
              ELSE parseDecorators(s, dtsData, definedAnnotations,
                     body.generatedName, ctor.end,
                     defaultValueAnalyzer(slice(s, ctor.start + 1, ctor.end),
                                          dtsData.properties, 0, EmptyObject),
                     bodies.val)
        IN decorated(methodsAnalyzer(s, removeExtend(s, dtsData.className),
                                     body.isES6, dtsData.className,
                                     dtsData.methods, 0, EmptyObject))
      values(ctor) == IF ctor.err # "none" THEN ctor ELSE methods(ctor.val)
  IN values(findConstructor(body.isES6, dtsData.className, s, body.start))

\* dtsData carries the class name and the names of the declared properties
\* and methods, the only parts of the descriptors that parseJS reads.
parseJS(s, dtsData, definedAnnotations) ==
  LET class(body) ==
        IF body.err # "none" THEN body
        ELSE parseClass(s, dtsData, definedAnnotations, body.val)
  IN class(findClassBody(s, dtsData.className))

(***************************************************************************)
(* Texts.                                                                  *)
(***************************************************************************)
TextsOver(alphabet, n) == UNION {[1..k -> alphabet] : k \in 0..n}

\* Texts of the bracket locator: two bracket pairs, newlines, a letter.
ClosingAlphabet == {"(", ")", "{", "\n", "a"}
ClosingTexts == TextsOver(ClosingAlphabet, MaxClosingLen)

\* Texts of the scanner and the splitter: brackets, strings, separators.
ScanAlphabet == {"(", ")", "<", ">", "\"", "\\", ",", " "}
\* `("),")`: a string literal that holds a closing bracket and a separator.
BracketInString == <<"(", "\"", ")", ",", "\"", ")">>

ScanTexts == TextsOver(ScanAlphabet, MaxLen) \cup {BracketInString}

\* The declaration data of a call that takes none.
NoDts == [className |-> <<>>, properties |-> <<>>, methods |-> <<>>]

NoCall ==
  [op |-> "none", offset |-> 0, term |-> StrTerm(""), brackets |-> <<>>,
   trim |-> FALSE, dtsData |-> NoDts, definedAnnotations |-> <<>>]

\* A text that was not written from the parts of a class declaration.
NoDecl ==
  [prefix |-> <<>>, extends |-> FALSE, members |-> <<>>, ending |-> <<>>]

(***************************************************************************)
(* The bracket locator on its own.                                         *)
(***************************************************************************)
InitClosing ==
  /\ decl = NoDecl
  /\ src \in ClosingTexts
  /\ call = NoCall
  /\ ret = Ok(0)

CallFindClosing ==
  /\ call.op = "none"
  /\ \E offset \in 0..(Len(src) - 1),
        brackets \in {ROUND_BRACKETS, OBJECT_BRACKETS} :
       /\ call' = [NoCall EXCEPT !.op = "findClosing", !.offset = offset,
                                 !.brackets = brackets]
       /\ ret' = findClosing(src, offset, brackets)
  /\ UNCHANGED <<src, decl>>

NextClosing == CallFindClosing

SpecClosing == InitClosing /\ [][NextClosing]_vars

(***************************************************************************)
(* The scanner and the splitter.                                           *)
(***************************************************************************)
InitScan ==
  /\ decl = NoDecl
  /\ src \in ScanTexts
  /\ call = NoCall
  /\ ret = Ok(0)

ScanTerms == {StrTerm(","), StrTerm(")"), StrTerm("<"), ReTerm("\\S")}

CallGoTo ==
  /\ call.op = "none"
  /\ \E term \in ScanTerms, offset \in 0..Len(src) :
       /\ call' = [NoCall EXCEPT !.op = "goTo", !.term = term,
                                 !.offset = offset]
       /\ ret' = goTo(src, term, offset)
  /\ UNCHANGED <<src, decl>>

CallSplit ==
  /\ call.op = "none"
  /\ \E trim \in BOOLEAN :
       /\ call' = [NoCall EXCEPT !.op = "split", !.term = StrTerm(","),
                                 !.trim = trim]
       /\ ret' = split(src, StrTerm(","), trim)
  /\ UNCHANGED <<src, decl>>

NextScan == CallGoTo \/ CallSplit

SpecScan == InitScan /\ [][NextScan]_vars

(***************************************************************************)
(* The type resolver: type expressions made of up to MaxFragments          *)
(* fragments, followed by a terminator or by nothing.                      *)
(***************************************************************************)
TypeFragments ==
  { <<"s", "t", "r", "i", "n", "g">>, <<"n", "u", "m", "b", "e", "r">>, <<"n", "u", "l", "l">>, <<"v", "o", "i", "d">>, <<"u", "n", "d", "e", "f", "i", "n", "e", "d">>, <<"n", "e", "v", "e", "r">>, <<"F", "o", "o">>, <<"r", "i", "n", "g">>, <<"i", "d">>, <<"(", "a", ",", " ", "b", ")">>,
    <<" ", "|", " ">>, <<"<", "B", "a", "r", ">">>, <<"[", "]">>, <<"{", " ", "a", ":", " ", "n", "u", "m", "b", "e", "r", " ", "}">>, <<"<">>, <<"\"">> }

RECURSIVE Concat(_)
Concat(parts) == IF parts = <<>> THEN <<>> ELSE Head(parts) \o Concat(Tail(parts))

TypeExpressions ==
  {Concat(parts) : parts \in UNION {[1..k -> TypeFragments] : k \in 0..MaxFragments}}

Terminators == {<<")">>, <<",">>, <<";">>}

TypeTexts == {e \o t : e \in TypeExpressions, t \in Terminators \cup {<<>>}}

InitType ==
  /\ decl = NoDecl
  /\ src \in TypeTexts
  /\ call = NoCall
  /\ ret = Ok(0)

CallGetType ==
  /\ call.op = "none"
  /\ \E offset \in {0, 1} :
       /\ call' = [NoCall EXCEPT !.op = "getType", !.offset = offset]
       /\ ret' = getType(src, offset)
  /\ UNCHANGED <<src, decl>>

NextType == CallGetType

SpecType == InitType /\ [][NextType]_vars

(***************************************************************************)
(* The declaration extractor: declarations of a class A, with or without   *)
(* a parent B, of up to MaxMembers members separated by a space.           *)
(***************************************************************************)
MemberDeclarations ==
  { [text |-> <<"x", ":", " ", "s", "t", "r", "i", "n", "g", ";">>, name |-> <<"x">>, kind |-> "property"],
    [text |-> <<"f", "(", "y", ":", " ", "n", "u", "m", "b", "e", "r", ")", ":", " ", "b", "o", "o", "l", "e", "a", "n", ";">>, name |-> <<"f">>, kind |-> "method"],
    [text |-> <<"f", "(", ")", ":", " ", "v", "o", "i", "d", ";">>, name |-> <<"f">>, kind |-> "method"],
    [text |-> <<"y", ";">>, name |-> <<"y">>, kind |-> "property"],
    [text |-> <<"s", "t", "a", "t", "i", "c", " ", "x", ":", " ", "F", "o", "o", ";">>, name |-> <<"x">>, kind |-> "property"],
    [text |-> <<"g", "(", "a", ",", " ", "b", ":", " ", "s", "t", "r", "i", "n", "g", ")", ";">>, name |-> <<"g">>, kind |-> "method"],
    [text |-> <<"h", "(", "a", ")", ":", "n", "u", "m", "b", "e", "r", ";">>, name |-> <<"h">>, kind |-> "method"],
    [text |-> <<"x", ":", "n", "u", "m", "b", "e", "r", ";">>, name |-> <<"x">>, kind |-> "property"] }

\* What precedes the keyword `class`.
Prefixes == {<<>>, <<" ">>, <<"d", "e", "c", "l", "a", "r", "e", " ">>}

\* What follows the last member: the closing brace, nothing (the text ends
\* with the last member), a member without its semicolon and the brace, or
\* the brace right after the last member and a declaration after the class.
Endings == {<<" ", "}">>, <<>>, <<" ", "z", " ", "}">>, <<"}", " ", "z", ";">>}

Declarations ==
  [prefix : Prefixes, extends : BOOLEAN,
   members : UNION {[1..k -> MemberDeclarations] : k \in 0..MaxMembers},
   ending : Endings]

RECURSIVE bodyText(_)
bodyText(members) ==
  IF members = <<>> THEN <<>>
  ELSE <<" ">> \o Head(members).text \o bodyText(Tail(members))

declarationText(d) ==
  d.prefix \o <<"c", "l", "a", "s", "s", " ", "A">> \o (IF d.extends THEN <<" ", "e", "x", "t", "e", "n", "d", "s", " ", "B">> ELSE <<>>)
    \o <<" ", "{">> \o bodyText(d.members) \o d.ending

InitDTS ==
  /\ decl \in Declarations
  /\ src = declarationText(decl)
  /\ call = NoCall
  /\ ret = Ok(0)

CallParseDTS ==
  /\ call.op = "none"
  /\ call' = [NoCall EXCEPT !.op = "parseDTS"]
  /\ ret' = parseDTS(src)
  /\ UNCHANGED <<src, decl>>

NextDTS == CallParseDTS

SpecDTS == InitDTS /\ [][NextDTS]_vars

(***************************************************************************)
(* The compiled-source parser on sources written the way the compiler      *)
(* writes them: a class in the prototype convention (es5) or the native    *)
(* one (es6), or a source without the class (none); a constructor; method  *)
(* definitions; decoration calls of fields and of the class.               *)
(***************************************************************************)
FieldX == <<"x">>
FieldY == <<"y">>
MethodF == <<"f">>
MethodG == <<"g">>

\* The declaration data parseJS is called with: class A, properties x and y,
\* methods f and g.
DtsOfA ==
  [className |-> <<"A">>, properties |-> <<FieldX, FieldY>>,
   methods |-> <<MethodF, MethodG>>]

\* The declaration data of a class A that declares no method.
DtsNoMethods == [DtsOfA EXCEPT !.methods = <<>>]

Compute == <<"C", "o", "m", "p", "u", "t", "e">>
AnnotationLists == {<<>>, <<Compute>>}

\* Statements of a constructor; z is not a declared property.
AssignX5 == <<"t", "h", "i", "s", ".", "x", " ", "=", " ", "5", ";", "\n">>
AssignX6 == <<"t", "h", "i", "s", ".", "x", " ", "=", " ", "6", ";", "\n">>
AssignY == <<"t", "h", "i", "s", ".", "y", " ", "=", " ", "\"", "a", ";", "b", "\"", ";", "\n">>
AssignZ == <<"t", "h", "i", "s", ".", "z", " ", "=", " ", "7", ";", "\n">>

\* A decoration call written among the statements of the constructor.
DecorateInCtor == <<"_", "_", "d", "e", "c", "o", "r", "a", "t", "e", "(", "[", "N", "o", "t", "i", "f", "y", "(", ")", "]", ",", " ", "A", ".", "p", "r", "o", "t", "o", "t", "y", "p", "e", ",", " ", "\"", "y", "\"", ",", " ", "v", "o", "i", "d", " ", "0", ")", ";", "\n">>

\* Method definitions: f returns nested object literals, g calls f in the
\* condition of an if, h is not a declared method and assigns to y.
Definitions ==
  {[name |-> MethodF, params |-> <<"a">>,
    body |-> <<"{", "\n", "r", "e", "t", "u", "r", "n", " ", "{", " ", "b", ":", " ", "{", "}", " ", "}", ";", "\n", "}">>],
   [name |-> MethodG, params |-> <<>>,
    body |-> <<"{", "\n", "i", "f", " ", "(", "t", "h", "i", "s", ".", "f", "(", "1", ")", ")", " ", "{", "\n", "}", "\n", "}">>],
   [name |-> <<"h">>, params |-> <<>>,
    body |-> <<"{", "\n", "t", "h", "i", "s", ".", "y", " ", "=", " ", "7", ";", "\n", "}">>]}

\* Entries of a decoration call; the last has a parenthesis in a string.
EntryNotify == <<"N", "o", "t", "i", "f", "y", "(", ")">>
EntryCompute == <<"C", "o", "m", "p", "u", "t", "e", "(", "f", "n", ")">>
EntryComputeText == <<"C", "o", "m", "p", "u", "t", "e", "(", "\"", ")", "\"", ")">>

NoClassCall == <<>>

\* Sources that differ in their constructor (values), in their methods
\* (methods) or in their decoration calls (decorated), the other parts being
\* the plainest.  A native class need not have a constructor; a decorated
\* field x may be followed by a decorated field y; a constructor may hold a
\* decoration call.
JSSources ==
  LET entryLists ==
        TextsOver({EntryNotify, EntryCompute, EntryComputeText}, MaxEntries)
          \ {<<>>}
      classEntryLists ==
        {<<EntryNotify>>, <<EntryCompute>>, <<EntryCompute, EntryNotify>>}
      fieldCalls ==
        {<<>>} \cup {<<[field |-> FieldX, entries |-> e]>> : e \in entryLists}
          \cup {<<[field |-> FieldX, entries |-> e],
                  [field |-> FieldY, entries |-> <<EntryNotify>>]>> :
                  e \in entryLists}
      values ==
        [convention : {"es5", "es6", "none"}, banner : BOOLEAN,
         hasCtor : {TRUE},
         ctor : TextsOver({AssignX5, AssignX6, AssignY, AssignZ, DecorateInCtor},
                         MaxStatements),
         methods : {<<>>}, fields : {<<>>}, classCall : {NoClassCall}]
      methods ==
        {d \in [convention : {"es5", "es6"}, banner : {FALSE},
                hasCtor : BOOLEAN, ctor : {<<AssignX5>>},
                methods : TextsOver(Definitions, MaxDefinitions),
                fields : {<<>>}, classCall : {NoClassCall}] :
           d.convention = "es5" => d.hasCtor}
      decorated ==
        [convention : {"es5", "es6"}, banner : {FALSE}, hasCtor : {TRUE},
         ctor : {<<AssignX5>>, <<DecorateInCtor>>}, methods : {<<>>},
         fields : fieldCalls,
         classCall : {NoClassCall} \cup classEntryLists]
  IN values \cup methods \cup decorated

RECURSIVE concat(_)
concat(texts) == IF texts = <<>> THEN <<>> ELSE Head(texts) \o concat(Tail(texts))

\* `a, b, c`: the entries of a decoration call as the compiler lists them.
RECURSIVE listed(_)
listed(entries) ==
  CASE entries = <<>> -> <<>>
    [] Len(entries) = 1 -> entries[1]
    [] OTHER -> entries[1] \o <<",", " ">> \o listed(Tail(entries))

\* The text of the source d describes up to the closing brace of its
\* constructor (up to its first member, if it has no constructor).
classHead(d) ==
  (IF d.banner THEN <<"/", "*", " ", "c", "l", "a", "s", "s", " ", "A", " ", "{", " ", "}", " ", "*", "/", "\n">> ELSE <<>>) \o
  CASE d.convention = "es5" ->
         <<"v", "a", "r", " ", "A", " ", "=", " ", "(", "f", "u", "n", "c", "t", "i", "o", "n", " ", "(", ")", " ", "{", "\n", "f", "u", "n", "c", "t", "i", "o", "n", " ", "A", "(", ")", " ", "{", "\n">> \o concat(d.ctor)
    [] d.convention = "es6" ->
         (IF d.classCall = NoClassCall THEN <<"c", "l", "a", "s", "s", " ", "A", " ", "{", "\n">>
          ELSE <<"l", "e", "t", " ", "A", " ", "=", " ", "c", "l", "a", "s", "s", " ", "A", " ", "{", "\n">>)
           \o (IF d.hasCtor
               THEN <<"c", "o", "n", "s", "t", "r", "u", "c", "t", "o", "r", "(", ")", " ", "{", "\n">> \o concat(d.ctor)
               ELSE <<>>)
    [] OTHER ->
         <<"c", "l", "a", "s", "s", " ", "B", " ", "{", "\n", "c", "o", "n", "s", "t", "r", "u", "c", "t", "o", "r", "(", ")", " ", "{", "\n">> \o concat(d.ctor)

\* The text of the source d describes: after a comment that holds
\* `class A { }` if d.banner, the class with its constructor, its method
\* definitions and its decoration calls (inside the function of the
\* prototype convention, after the native class, which the compiler names
\* with `let` when the class is decorated).
sourceText(d) ==
  LET definition(m) ==
        IF d.convention = "es5"
        THEN <<"A", ".", "p", "r", "o", "t", "o", "t", "y", "p", "e", ".">> \o m.name \o <<" ", "=", " ", "f", "u", "n", "c", "t", "i", "o", "n", " ", "(">> \o m.params
               \o <<")", " ">> \o m.body \o <<";", "\n">>
        ELSE m.name \o <<"(">> \o m.params \o <<")", " ">> \o m.body \o <<"\n">>
      fieldCall(c) ==
        <<"_", "_", "d", "e", "c", "o", "r", "a", "t", "e", "(", "[">> \o listed(c.entries) \o <<"]", ",", " ", "A", ".", "p", "r", "o", "t", "o", "t", "y", "p", "e", ",", " ", "\"">>
          \o c.field \o <<"\"", ",", " ", "v", "o", "i", "d", " ", "0", ")", ";", "\n">>
      classCall ==
        IF d.classCall = NoClassCall THEN <<>>
        ELSE <<"A", " ", "=", " ", "_", "_", "d", "e", "c", "o", "r", "a", "t", "e", "(", "[">> \o listed(d.classCall) \o <<"]", ",", " ", "A", ")", ";", "\n">>
      decorations ==
        concat([k \in 1..Len(d.fields) |-> fieldCall(d.fields[k])]) \o classCall
      members ==
        concat([k \in 1..Len(d.methods) |-> definition(d.methods[k])])
  IN
  classHead(d) \o
  CASE d.convention = "es5" ->
        <<"}", "\n">> \o members \o decorations
           \o <<"r", "e", "t", "u", "r", "n", " ", "A", ";", "\n", "}", "(", ")", ")", ";", "\n">>
    [] d.convention = "es6" ->
         (IF d.hasCtor THEN <<"}", "\n">> ELSE <<>>)
           \o members
           \o (IF d.classCall = NoClassCall THEN <<"}", "\n">> ELSE <<"}", ";", "\n">>)
           \o decorations
    [] OTHER ->
         <<"}", "\n", "}", "\n">>

InitJS ==
  /\ decl \in JSSources
  /\ src = sourceText(decl)
  /\ call = NoCall
  /\ ret = Ok(0)

CallParseJS ==
  /\ call.op = "none"
  /\ \E definedAnnotations \in AnnotationLists :
       \E dtsData \in {DtsOfA, DtsNoMethods} :
         /\ call' = [NoCall EXCEPT !.op = "parseJS", !.dtsData = dtsData,
                                   !.definedAnnotations = definedAnnotations]
         /\ ret' = parseJS(src, dtsData, definedAnnotations)
  /\ UNCHANGED <<src, decl>>

NextJS == CallParseJS

SpecJS == InitJS /\ [][NextJS]_vars

(***************************************************************************)
(* What the claims speak of, stated without the scanner's own loops.       *)
(***************************************************************************)
Opening == {"{", "[", "<", "("}
Closing == {"}", "]", ">", ")"}
Quotes == {"'", BACKTICK, "\""}

Least(S) == CHOOSE i \in S : \A j \in S : i <= j

CountOf(s, c, from, to) == Cardinality({k \in from..to : charAt(s, k) = c})

\* The nesting counter after the characters open+1 .. i have been read.
Nesting(s, open, i, brackets) ==
  1 + CountOf(s, brackets[1], open + 1, i) - CountOf(s, brackets[2], open + 1, i)

\* The offsets after `open` at which the nesting counter is 0.
Zeroes(s, open, brackets) ==
  {i \in (open + 1)..(Len(s) - 1) : Nesting(s, open, i, brackets) = 0}

\* C1: when the bracket opened at openOffset has a matching close, findClosing
\* returns the first offset at which the nesting counter (1 after openOffset,
\* +1 on the opening character, -1 on the closing one) reaches 0.
C1_FindClosingReturnsPartner ==
  (/\ call.op = "findClosing"
   /\ charAt(src, call.offset) = call.brackets[1]
   /\ Zeroes(src, call.offset, call.brackets) # {})
  => ret = Ok(Least(Zeroes(src, call.offset, call.brackets)))

\* A partner found past a nested pair.
C1_Witness ==
  /\ call.op = "findClosing"
  /\ charAt(src, call.offset) = call.brackets[1]
  /\ ret.err = "none"
  /\ \E k \in (call.offset + 1)..(ret.val - 1) :
       charAt(src, k) = call.brackets[1]

\* C4: when the text ends before the nesting counter reaches 0, findClosing
\* throws a SyntaxError that carries 1 plus the number of newlines before
\* openOffset, and returns no index.
C4_FindClosingThrowsWithLine ==
  (/\ call.op = "findClosing"
   /\ Zeroes(src, call.offset, call.brackets) = {})
  => /\ ret.err = "SyntaxError"
     /\ ret.line = 1 + CountOf(src, "\n", 0, call.offset - 1)

\* An unmatched bracket on the second line or later, with a newline after it.
C4_Witness ==
  /\ call.op = "findClosing"
  /\ ret.err = "SyntaxError"
  /\ ret.line >= 2
  /\ \E k \in (call.offset + 1)..(Len(src) - 1) : charAt(src, k) = "\n"

\* Whether the brackets opened at or after offset i are well nested: `stack`
\* holds the closing brackets still awaited.  A closing bracket met with nothing
\* awaited closes a bracket opened before the start, or none.
closingOf(c) == bracketsOf(c)[2]

RECURSIVE WellNestedFrom(_, _, _)
WellNestedFrom(s, i, stack) ==
  IF i >= Len(s) THEN stack = <<>>
  ELSE LET c == charAt(s, i) IN
       IF c \in Opening
       THEN WellNestedFrom(s, i + 1, <<closingOf(c)>> \o stack)
       ELSE IF c \in Closing /\ stack # <<>>
       THEN Head(stack) = c /\ WellNestedFrom(s, i + 1, Tail(stack))
       ELSE WellNestedFrom(s, i + 1, stack)

NoQuotes(s) == \A k \in 1..Len(s) : s[k] \notin Quotes

\* The depth of brackets of any kind after the characters a+1 .. i.
Depth(s, a, i) ==
  1 + Cardinality({k \in (a + 1)..i : charAt(s, k) \in Opening})
    - Cardinality({k \in (a + 1)..i : charAt(s, k) \in Closing})

\* The partner of the bracket opened at a, in a well-nested text.
PartnerOf(s, a) == Least({i \in (a + 1)..(Len(s) - 1) : Depth(s, a, i) = 0})

\* i lies strictly between a bracket opened at or after `from` and its partner.
StrictlyInside(s, from, i) ==
  \E a \in from..(i - 1) : charAt(s, a) \in Opening /\ i < PartnerOf(s, a)

\* i lies after a bracket opened at or after `from`, up to its partner included.
InsideOrClosing(s, from, i) ==
  \E a \in from..(i - 1) : charAt(s, a) \in Opening /\ i <= PartnerOf(s, a)

C3_Case ==
  /\ call.op = "goTo"
  /\ call.term.kind = "string"
  /\ NoQuotes(src)
  /\ WellNestedFrom(src, call.offset, <<>>)

FirstOrNotFound(S) == IF S = {} THEN -1 ELSE Least(S)

\* C3 as claimed: goTo returns the first occurrence of c at or after
\* startOffset that is not strictly inside a bracket pair opened at or after
\* startOffset, -1 when there is none.
C3_AsClaimed ==
  C3_Case =>
    ret = Ok(FirstOrNotFound(
            {i \in call.offset..(Len(src) - 1) :
               /\ charAt(src, i) = call.term.pat
               /\ ~StrictlyInside(src, call.offset, i)}))

\* C3, amended: goTo returns the first occurrence of c at or after startOffset
\* that is neither strictly inside a bracket pair opened at or after
\* startOffset nor the closing bracket of such a pair, -1 when there is none.
C3_GoToSkipsPairsInclusive ==
  C3_Case =>
    ret = Ok(FirstOrNotFound(
            {i \in call.offset..(Len(src) - 1) :
               /\ charAt(src, i) = call.term.pat
               /\ ~InsideOrClosing(src, call.offset, i)}))

\* A target found after a pair that holds the target character, the pair's
\* own closing bracket aside.
C3_Witness ==
  /\ C3_Case
  /\ ret.err = "none"
  /\ ret.val > call.offset
  /\ \E i \in call.offset..(ret.val - 1) :
       /\ charAt(src, i) = call.term.pat
       /\ StrictlyInside(src, call.offset, i)

\* The scan of a reader that knows strings and brackets, from offset i on:
\* `top` gathers the offsets outside every string literal and every bracket
\* pair, `quoted` those inside a string literal.  `stack` holds the closing
\* brackets awaited, `quote` the open quote, `prev` the character before i
\* (a quote after a backslash neither opens nor closes a string).
\* bad: a string or a bracket is left open, or a closing bracket is unmatched.
RECURSIVE Lexed(_, _, _, _, _, _, _)
Lexed(s, i, prev, stack, quote, top, quoted) ==
  IF i >= Len(s)
  THEN [bad |-> stack # <<>> \/ quote # NoString, top |-> top,
        quoted |-> quoted]
  ELSE LET c == charAt(s, i)
           escaped == prev = "\\"
       IN
       IF quote # NoString
       THEN IF c = quote /\ ~escaped
            THEN Lexed(s, i + 1, c, stack, NoString, top, quoted)
            ELSE Lexed(s, i + 1, c, stack, quote, top, quoted \cup {i})
       ELSE IF c \in Quotes /\ ~escaped
       THEN Lexed(s, i + 1, c, stack, c, top, quoted)
       ELSE IF c \in Opening
       THEN Lexed(s, i + 1, c, <<closingOf(c)>> \o stack, quote, top, quoted)
       ELSE IF c \in Closing
       THEN IF stack # <<>> /\ Head(stack) = c
            THEN Lexed(s, i + 1, c, Tail(stack), quote, top, quoted)
            ELSE [bad |-> TRUE, top |-> top, quoted |-> quoted]
       ELSE Lexed(s, i + 1, c, stack, quote,
                  IF stack = <<>> THEN top \cup {i} ELSE top, quoted)

LexedFrom(s, i) == Lexed(s, i, NoChar, <<>>, NoString, {}, {})

\* C2 as claimed: a bracket inside a string literal opens no bracket region,
\* so goTo returns the offset of the first target outside strings and
\* brackets that follows the string (texts without backslashes).
C2_AsClaimed ==
  LET lexed == LexedFrom(src, call.offset)
      hits == {i \in lexed.top : charAt(src, i) = call.term.pat}
  IN (/\ call.op = "goTo"
      /\ call.term.kind = "string"
      /\ \A k \in 1..Len(src) : src[k] # "\\"
      /\ ~lexed.bad
      /\ \E k \in lexed.quoted : charAt(src, k) \in Opening \cup Closing
      /\ hits # {})
     => ret = Ok(Least(hits))

\* C5 as claimed: split returns at least one chunk, and exactly the whole
\* text (trimmed on request) when no separator stands outside the strings and
\* the brackets of a text whose strings and brackets are closed.
C5_AsClaimed ==
  LET lexed == LexedFrom(src, 0)
  IN call.op = "split" =>
       /\ ret.err = "none" => Len(ret.val) >= 1
       /\ (/\ ~lexed.bad
           /\ \A i \in lexed.top : charAt(src, i) # call.term.pat)
          => ret = Ok(<<IF call.trim THEN Trim(src) ELSE src>>)

\* The rows of the type reduction table: a type expression and its category.
TypeTable ==
  { [text |-> <<"s", "t", "r", "i", "n", "g">>, type |-> <<"S", "t", "r", "i", "n", "g">>],
    [text |-> <<"s", "t", "r", "i", "n", "g", " ", "|", " ", "n", "u", "l", "l">>, type |-> <<"S", "t", "r", "i", "n", "g">>],
    [text |-> <<"n", "u", "m", "b", "e", "r", " ", "|", " ", "s", "t", "r", "i", "n", "g">>, type |-> <<"O", "b", "j", "e", "c", "t">>],
    [text |-> <<"{", " ", "a", ":", " ", "n", "u", "m", "b", "e", "r", " ", "}">>, type |-> <<"O", "b", "j", "e", "c", "t">>],
    [text |-> <<"s", "t", "r", "i", "n", "g", "[", "]">>, type |-> <<"A", "r", "r", "a", "y">>],
    [text |-> <<"F", "o", "o", "<", "B", "a", "r", ">">>, type |-> <<"F", "o", "o">>] }

\* C6: getType applied to a type expression of the table followed by a
\* terminator returns the table's category: string -> String, string | null ->
\* String, number | string -> Object, { a: number } -> Object, string[] ->
\* Array, Foo<Bar> -> Foo.
C6_TypeTable ==
  \A row \in TypeTable : \A t \in Terminators :
    (call.op = "getType" /\ call.offset = 0 /\ src = row.text \o t)
    => ret.err = "none" /\ ret.val.type = row.type

\* The row of the table that joins an ignored member to a concrete one.
C6_Witness ==
  /\ call.op = "getType"
  /\ call.offset = 0
  /\ src = <<"s", "t", "r", "i", "n", "g", " ", "|", " ", "n", "u", "l", "l", ";">>
  /\ ret = Ok([type |-> <<"S", "t", "r", "i", "n", "g">>, end |-> 13])

IgnoredKeywords == {<<"v", "o", "i", "d">>, <<"n", "u", "l", "l">>, <<"u", "n", "d", "e", "f", "i", "n", "e", "d">>, <<"n", "e", "v", "e", "r">>}

\* C7 as claimed: getType applied to an ignored keyword alone (void, null,
\* undefined, never) followed by a terminator returns a null type.
C7_AsClaimed ==
  \A kw \in IgnoredKeywords : \A t \in Terminators :
    (call.op = "getType" /\ call.offset = 0 /\ src = kw \o t)
    => ret.err = "none" /\ ret.val.type = NULL

\* C8 as claimed: getType never throws, and when a `<` has no matching `>` or
\* the text ends before a terminator it returns {type: null, end: -1}.
C8_AsClaimed ==
  call.op = "getType" =>
    /\ ret.err = "none"
    /\ (\/ \E i \in call.offset..(Len(src) - 1) :
             charAt(src, i) = "<" /\ Zeroes(src, i, GENERIC_BRACKETS) = {}
        \/ \A i \in call.offset..(Len(src) - 1) : <<charAt(src, i)>> \notin Terminators)
       => ret.val = [type |-> NULL, end |-> -1]

\* The declaration text of C9.
C9_Text == <<"c", "l", "a", "s", "s", " ", "A", " ", "e", "x", "t", "e", "n", "d", "s", " ", "B", " ", "{", " ", "x", ":", " ", "s", "t", "r", "i", "n", "g", ";", " ", "f", "(", "y", ":", " ", "n", "u", "m", "b", "e", "r", ")", ":", " ", "b", "o", "o", "l", "e", "a", "n", ";", " ", "}">>

C9_Properties ==
  << [name |-> <<"x">>, hasParams |-> FALSE, params |-> <<>>, type |-> <<"S", "t", "r", "i", "n", "g">>,
      flags |-> {}] >>

C9_Methods ==
  << [name |-> <<"f">>, hasParams |-> TRUE,
      params |-> << [name |-> <<"y">>, type |-> <<"N", "u", "m", "b", "e", "r">>] >>,
      type |-> <<"B", "o", "o", "l", "e", "a", "n">>, flags |-> {}] >>

\* C9 as claimed: parseDTS applied to
\* `class A extends B { x: string; f(y: number): boolean; }` returns className
\* A, parent B, the one property x of type String and the one method f with
\* the parameter y of type Number and the type Boolean.
C9_AsClaimed ==
  (call.op = "parseDTS" /\ src = C9_Text)
  => ret = Ok([className |-> <<"A">>, parent |-> <<"B">>,
               properties |-> C9_Properties, methods |-> C9_Methods])

RECURSIVE namesOf(_)
namesOf(fields) ==
  IF fields = <<>> THEN <<>> ELSE <<Head(fields).name>> \o namesOf(Tail(fields))

RECURSIVE declaredNames(_, _)
declaredNames(members, kind) ==
  IF members = <<>> THEN <<>>
  ELSE (IF Head(members).kind = kind THEN <<Head(members).name>> ELSE <<>>)
         \o declaredNames(Tail(members), kind)

Unique(names) ==
  \A i, j \in 1..Len(names) : names[i] = names[j] => i = j

\* Whitespace separates the last member from what follows it, as in the
\* declaration files the compiler emits.
WhitespaceAfterMembers == decl.ending = <<>> \/ Head(decl.ending) = " "

C10_Case == call.op = "parseDTS" /\ ret.err = "none" /\ WhitespaceAfterMembers

ClassHeaderAt(s, i) ==
  LET nameFrom == i + Len(<<"c", "l", "a", "s", "s", " ">>)
      nameTo == wordRun(s, nameFrom)
      spaceTo == spaceRun(s, nameTo)
      parentFrom == spaceTo + Len(<<"e", "x", "t", "e", "n", "d", "s", " ">>)
  IN /\ startsWith(s, i, <<"c", "l", "a", "s", "s", " ">>)
     /\ nameTo > nameFrom
     /\ \/ charAt(s, spaceTo) = "{"
        \/ /\ spaceTo > nameTo
           /\ startsWith(s, spaceTo, <<"e", "x", "t", "e", "n", "d", "s", " ">>)
           /\ indexOf(s, "{", parentFrom) > parentFrom

HasClassHeader(s) == \E i \in 0..(Len(s) - 1) : ClassHeaderAt(s, i)

\* C11 as claimed: parseDTS throws the "no class found" error exactly when
\* the text holds no header `class <Name> [extends <Parent>] {`, wherever in
\* the text the header starts.
C11_AsClaimed ==
  call.op = "parseDTS" => (ret.err = "Error" <=> ~HasClassHeader(src))

\* C12 as claimed: parseDTS comes to an end on every text, the class's
\* closing brace or a member's semicolon missing included.
C12_AsClaimed == call.op = "parseDTS" => ret.err # "hang"

\* C13 as claimed: getType comes to an end on every text and start offset,
\* a text with an unterminated double-quoted string literal included.
C13_AsClaimed == call.op = "getType" => ret.err # "hang"

ConcreteTypes == {<<"s", "t", "r", "i", "n", "g">>, <<"n", "u", "m", "b", "e", "r">>, <<"F", "o", "o">>}

\* C20 as claimed: joined to a concrete type T by `|`, before it or after
\* it, an ignored keyword (void, null, undefined, never) leaves the type
\* getType resolves the one it resolves for T alone.
C20_AsClaimed ==
  \A kw \in IgnoredKeywords : \A T \in ConcreteTypes : \A t \in Terminators :
    (/\ call.op = "getType"
     /\ call.offset = 0
     /\ src \in {kw \o <<" ", "|", " ">> \o T \o t,
                 T \o <<" ", "|", " ">> \o kw \o t})
    => ret.err = "none" /\ ret.val.type = getType(T \o t, 0).val.type

(***************************************************************************)
(* Decoration calls, as the claims speak of them.                          *)
(***************************************************************************)
\* The bare name of an entry: its text before its first `(`.
BareName(e) ==
  IF \E k \in 1..Len(e) : e[k] = "("
  THEN SubSeq(e, 1, (CHOOSE k \in 1..Len(e) :
                       e[k] = "(" /\ \A j \in 1..(k - 1) : e[j] # "(") - 1)
  ELSE e

Recognized(e, names) == \E k \in 1..Len(names) : names[k] = BareName(e)

\* The entries that are not annotations, and those that are, in their order.
Kept(entries, names) ==
  LET kept(e) == ~Recognized(e, names) IN SelectSeq(entries, kept)

Stripped(entries, names) ==
  LET stripped(e) == Recognized(e, names) IN SelectSeq(entries, stripped)

\* The original texts of the descriptors filed under a key.
SourcesOf(list) == [k \in 1..Len(list) |-> list[k].src]

\* A text without its white space.
Squeeze(s) == LET black(c) == c \notin Whitespace IN SelectSeq(s, black)

\* The field calls of d, each with its kept entries only, those without any
\* left out.
KeptFieldCalls(d, names) ==
  LET some(c) == c.entries # <<>>
  IN SelectSeq([k \in 1..Len(d.fields) |->
                  [field |-> d.fields[k].field,
                   entries |-> Kept(d.fields[k].entries, names)]], some)

\* C14: for every field-level decoration call of the source, parseJS sets
\* decorators[field] and annotations[field]; the two lists partition the
\* call's entries in their order, an entry being an annotation iff its bare
\* name is in definedAnnotations; the rewritten source has the call with its
\* non-annotation entries only, and no call when none remains.
C14_AsClaimed ==
  (call.op = "parseJS" /\ decl.fields # <<>>) =>
    /\ ret.err = "none"
    /\ \A k \in 1..Len(decl.fields) :
         LET c == decl.fields[k] IN
         /\ c.field \in DOMAIN ret.val.decorators
         /\ c.field \in DOMAIN ret.val.annotations
         /\ SourcesOf(ret.val.decorators[c.field])
              = Kept(c.entries, call.definedAnnotations)
         /\ SourcesOf(ret.val.annotations[c.field])
              = Stripped(c.entries, call.definedAnnotations)
    /\ decl.classCall = NoClassCall =>
         Squeeze(ret.val.src)
           = Squeeze(sourceText([decl EXCEPT !.fields =
                       KeptFieldCalls(decl, call.definedAnnotations)]))

\* C15: for every source with a class-level decoration call after the
\* constructor, preceded by field-level calls or not, parseJS files the
\* call's entries under decorators["class"] and annotations["class"] by the
\* rule of the fields, and the rewritten source has the call with its
\* non-annotation entries only.
C15_AsClaimed ==
  (call.op = "parseJS" /\ decl.classCall # NoClassCall) =>
    /\ ret.err = "none"
    /\ <<"c", "l", "a", "s", "s">> \in DOMAIN ret.val.decorators
    /\ <<"c", "l", "a", "s", "s">> \in DOMAIN ret.val.annotations
    /\ SourcesOf(ret.val.decorators[<<"c", "l", "a", "s", "s">>])
         = Kept(decl.classCall, call.definedAnnotations)
    /\ SourcesOf(ret.val.annotations[<<"c", "l", "a", "s", "s">>])
         = Stripped(decl.classCall, call.definedAnnotations)
    /\ Squeeze(ret.val.src)
         = Squeeze(sourceText([decl EXCEPT
                     !.fields = KeptFieldCalls(decl, call.definedAnnotations),
                     !.classCall = Kept(decl.classCall,
                                        call.definedAnnotations)]))

(***************************************************************************)
(* Method bodies, as the claims speak of them.                             *)
(***************************************************************************)
\* The methods the declaration data names and the source defines.
DefinedMethods ==
  {k \in 1..Len(decl.methods) :
     \E j \in 1..Len(call.dtsData.methods) :
       call.dtsData.methods[j] = decl.methods[k].name}

\* C16: for every declared method that the source defines, methodBodies
\* holds exactly the brace-delimited body of the definition, from its
\* opening brace to the matching closing one, without parameter list or
\* header.
C16_AsClaimed ==
  (call.op = "parseJS" /\ DefinedMethods # {}) =>
    /\ ret.err = "none"
    /\ \A k \in DefinedMethods :
         /\ decl.methods[k].name \in DOMAIN ret.val.methodBodies
         /\ ret.val.methodBodies[decl.methods[k].name] = decl.methods[k].body

(***************************************************************************)
(* Default values, as the claims speak of them.                            *)
(***************************************************************************)
\* A statement `this.<name> = <value>;` of the constructor: the name it
\* assigns to (one letter) and the text of the value.
AssignedName(statement) == SubSeq(statement, 6, 6)
AssignedValue(statement) == SubSeq(statement, 10, Len(statement) - 2)

Declared(name) ==
  \E j \in 1..Len(call.dtsData.properties) : call.dtsData.properties[j] = name

\* The statements of the constructor that assign to name.
AssignmentsTo(name) ==
  {k \in 1..Len(decl.ctor) : AssignedName(decl.ctor[k]) = name}

LastAssignmentTo(name) ==
  CHOOSE k \in AssignmentsTo(name) : \A j \in AssignmentsTo(name) : j <= k

\* C17: for a source in the prototype convention, values holds for every
\* declared property that the constructor assigns to the text of the last
\* value assigned (values["x"] = "5" for `this.x = 5;`), and holds nothing
\* for a name that is not a declared property or is not assigned to.
C17_DefaultValues ==
  (call.op = "parseJS" /\ decl.convention = "es5") =>
    /\ ret.err = "none"
    /\ DOMAIN ret.val.values
         = {name \in {AssignedName(decl.ctor[k]) : k \in 1..Len(decl.ctor)} :
              Declared(name)}
    /\ \A name \in DOMAIN ret.val.values :
         ret.val.values[name] = AssignedValue(decl.ctor[LastAssignmentTo(name)])

\* x is assigned 5 and later 6, z is assigned too: values.x is 6 and there
\* is no values.z.
C17_Witness ==
  /\ call.op = "parseJS"
  /\ decl.convention = "es5"
  /\ \E i, j, k \in 1..Len(decl.ctor) :
       /\ i < j
       /\ decl.ctor[i] = AssignX5
       /\ decl.ctor[j] = AssignX6
       /\ decl.ctor[k] = AssignZ
  /\ ret.err = "none"
  /\ ret.val.values[FieldX] = <<"6">>
  /\ <<"z">> \notin DOMAIN ret.val.values

\* The nesting depth of braces after the first k characters of a text.
BraceDepth(s, k) ==
  Cardinality({i \in 1..k : s[i] = "{"}) - Cardinality({i \in 1..k : s[i] = "}"})

BraceBalanced(s) ==
  /\ \A k \in 0..Len(s) : BraceDepth(s, k) >= 0
  /\ BraceDepth(s, Len(s)) = 0

\* C18: every text captured in methodBodies is brace-balanced: read from
\* left to right its nesting depth of braces starts at 0, ends at 0 and is
\* never negative; so is in particular the text captured for a method whose
\* body holds nested object literals.
C18_CapturedBodyBalanced ==
  (call.op = "parseJS" /\ ret.err = "none") =>
    \A name \in DOMAIN ret.val.methodBodies :
      BraceBalanced(ret.val.methodBodies[name])

\* f, whose body returns { b: {} }, is defined and its captured text holds
\* the nested literals.
C18_Witness ==
  /\ call.op = "parseJS"
  /\ \E k \in 1..Len(decl.methods) :
       decl.methods[k].name = MethodF /\ BraceBalanced(decl.methods[k].body)
  /\ ret.err = "none"
  /\ MethodF \in DOMAIN ret.val.methodBodies
  /\ indexOfString(ret.val.methodBodies[MethodF], <<"{", " ", "b", ":", " ", "{", "}", " ", "}">>, 0) > 0
  /\ BraceDepth(ret.val.methodBodies[MethodF], Len(ret.val.methodBodies[MethodF]) - 1) > 0

(***************************************************************************)
(* Class headers, as the claims speak of them.                             *)
(***************************************************************************)
\* `var A = (function (...) {` somewhere in the text.
HasPrototypeHeader(s) ==
  \E i \in 0..(Len(s) - 1) :
    \/ startsWith(s, i, <<"v", "a", "r", " ", "A", " ", "=", " ", "(", "f", "u", "n", "c", "t", "i", "o", "n", " ", "(", ")", " ", "{">>)
    \/ startsWith(s, i, <<"v", "a", "r", " ", "A", " ", "=", " ", "(", "f", "u", "n", "c", "t", "i", "o", "n", " ", "(", "_", "s", "u", "p", "e", "r", ")", " ", "{">>)

\* `class A {` or `class A extends <parent> {` somewhere in the text.
HasNativeHeader(s) ==
  \E i \in 0..(Len(s) - 1) :
    \/ startsWith(s, i, <<"c", "l", "a", "s", "s", " ", "A", " ", "{">>)
    \/ /\ startsWith(s, i, <<"c", "l", "a", "s", "s", " ", "A", " ", "e", "x", "t", "e", "n", "d", "s", " ">>)
       /\ \E j \in (i + 17)..(Len(s) - 1) :
            startsWith(s, j, <<" ", "{">>)
              /\ \A k \in (i + 16)..(j - 1) : charAt(s, k) # "\n"

\* C19: a source with the prototype-convention header is read in that
\* convention, even when it has the native header too; the native one is
\* used only when the first is absent; a source with neither makes parseJS
\* throw "no class found", and nothing is returned.
C19_ConventionOrderAndNoClass ==
  call.op = "parseJS" =>
    /\ HasPrototypeHeader(src) =>
         /\ findClassBody(src, call.dtsData.className).err = "none"
         /\ ~findClassBody(src, call.dtsData.className).val.isES6
    /\ (~HasPrototypeHeader(src) /\ HasNativeHeader(src)) =>
         /\ findClassBody(src, call.dtsData.className).err = "none"
         /\ findClassBody(src, call.dtsData.className).val.isES6
    /\ (~HasPrototypeHeader(src) /\ ~HasNativeHeader(src)) =>
         ret = Throw("Error", 0)
    /\ ret.err = "Error" =>
         ~HasPrototypeHeader(src) /\ ~HasNativeHeader(src)

\* A source of class B, whose constructor assigns to x: parseJS has thrown
\* "no class found".
C19_Witness ==
  /\ call.op = "parseJS"
  /\ decl.convention = "none"
  /\ ~decl.banner
  /\ \E k \in 1..Len(decl.ctor) : decl.ctor[k] = AssignX5
  /\ ret.err = "Error"

(***************************************************************************)
(* Type names that are fragments of a keyword.                             *)
(***************************************************************************)
\* ring is a fragment of string, id of void; neither is a keyword.
KeywordFragments == {<<"r", "i", "n", "g">>, <<"i", "d">>}

\* C21 as claimed: a type name that is only a fragment of a keyword is a
\* concrete type: alone it is returned verbatim, not capitalized, and joined
\* to another concrete type by `|` it is not ignored, so the union is Object.
C21_AsClaimed ==
  \A name \in KeywordFragments : \A t \in Terminators :
    (call.op = "getType" /\ call.offset = 0) =>
      /\ src = name \o t => ret.err = "none" /\ ret.val.type = name
      /\ src = <<"F", "o", "o", " ", "|", " ">> \o name \o t =>
           ret.err = "none" /\ ret.val.type = TYPES_OBJECT

(***************************************************************************)
(* Terminators of a type expression.                                       *)
(***************************************************************************)
\* The offsets of the terminators `)`, `,`, `;` of s that are at top level:
\* neither inside a bracket pair nor the closing bracket of one.
TopLevelTerminators(s) ==
  {i \in 0..(Len(s) - 1) :
     charAt(s, i) \in {")", ",", ";"} /\ ~InsideOrClosing(s, 0, i)}

\* C22 as claimed: on a type expression without string literals whose
\* brackets are well nested and which has a top-level terminator, getType
\* ends at the first top-level terminator, never at a terminator character
\* inside {...}, [...], <...> or (...).
C22_AsClaimed ==
  (/\ call.op = "getType"
   /\ call.offset = 0
   /\ NoQuotes(src)
   /\ WellNestedFrom(src, 0, <<>>)
   /\ TopLevelTerminators(src) # {})
  => ret.err = "none" /\ ret.val.end = Least(TopLevelTerminators(src))

(***************************************************************************)
(* Parameters, return types and the end of the class.                      *)
(***************************************************************************)
\* The formal parameters written between the parentheses of the method
\* declarations g(a, b: string), h(a) and f(y: number); f() has none.
WrittenParams(member) ==
  CASE member.name = <<"g">> ->
         << [name |-> <<"a">>, type |-> NULL],
            [name |-> <<"b">>, type |-> TYPES_STRING] >>
    [] member.name = <<"h">> -> << [name |-> <<"a">>, type |-> NULL] >>
    [] member.name = <<"f">> /\ Len(member.text) > 10 ->
         << [name |-> <<"y">>, type |-> TYPES_NUMBER] >>
    [] OTHER -> <<>>

RECURSIVE declaredParams(_)
declaredParams(members) ==
  IF members = <<>> THEN <<>>
  ELSE (IF Head(members).kind = "method"
        THEN <<WrittenParams(Head(members))>> ELSE <<>>)
         \o declaredParams(Tail(members))

RECURSIVE paramsOf(_)
paramsOf(fields) ==
  IF fields = <<>> THEN <<>>
  ELSE <<Head(fields).params>> \o paramsOf(Tail(fields))

\* C23 as claimed: each method descriptor of parseDTS has one parameter per
\* formal parameter, in order, named by the identifier between the
\* parentheses and typed exactly when the parameter is annotated; nothing at
\* or after the closing parenthesis enters a parameter's name or type.
C23_AsClaimed ==
  C10_Case => paramsOf(ret.val.methods) = declaredParams(decl.members)

RECURSIVE typesOf(_)
typesOf(fields) ==
  IF fields = <<>> THEN <<>>
  ELSE <<Head(fields).type>> \o typesOf(Tail(fields))

\* The type text `number` right after the colon, as a property and as a
\* method's return type.
PropertyNumber ==
  [text |-> <<"x", ":", "n", "u", "m", "b", "e", "r", ";">>, name |-> <<"x">>, kind |-> "property"]

MethodNumber ==
  [text |-> <<"h", "(", "a", ")", ":", "n", "u", "m", "b", "e", "r", ";">>, name |-> <<"h">>, kind |-> "method"]

\* C24 as claimed: the type after a colon is resolved from just past the
\* colon for a property and for a method alike: the property `x:number;` and
\* the method `h(a):number;` of one class get the same type.
C24_AsClaimed ==
  (C10_Case /\ decl.members = <<PropertyNumber, MethodNumber>>)
  => typesOf(ret.val.properties) = typesOf(ret.val.methods)

\* C25 as claimed: parseDTS stops at the closing brace of the class: a
\* declaration that follows the class in the text is never recorded as a
\* member, whatever separates a member's semicolon from the brace.
C25_AsClaimed ==
  (call.op = "parseDTS" /\ ret.err = "none"
   /\ decl.ending = <<"}", " ", "z", ";">>)
  => /\ namesOf(ret.val.properties) = declaredNames(decl.members, "property")
     /\ namesOf(ret.val.methods) = declaredNames(decl.members, "method")

(***************************************************************************)
(* Default values and the constructor.                                     *)
(***************************************************************************)
\* C26 as claimed: values holds nothing but what the constructor's body
\* assigns, an assignment in a method's body is never recorded, and a class
\* without an explicit constructor gives empty values.
C26_AsClaimed ==
  (call.op = "parseJS" /\ decl.convention \in {"es5", "es6"}) =>
    /\ ret.err = "none"
    /\ decl.hasCtor =>
         DOMAIN ret.val.values
           \subseteq {AssignedName(decl.ctor[k]) : k \in 1..Len(decl.ctor)}
    /\ ~decl.hasCtor => ret.val.values = EmptyObject

(***************************************************************************)
(* What parseJS leaves of the source.                                      *)
(***************************************************************************)
\* The offsets at which a decoration call `__decorate([` starts.
DecorateOffsets(s) ==
  {i \in 0..(Len(s) - 1) : startsWith(s, i, <<"_", "_", "d", "e", "c", "o", "r", "a", "t", "e", "(", "[">>)}

\* The decoration calls at or after the closing brace of the constructor.
DecorateAfterCtor == {i \in DecorateOffsets(src) : i >= Len(classHead(decl))}

\* C27: the source parseJS returns begins with the characters of the input
\* before the first decoration call at or after the constructor's end; a
\* decoration call before that offset is neither recorded nor rewritten, and
\* without a decoration call after the constructor the source returned is
\* the input and nothing is recorded.
C27_SourceBeforeDecoratorsKept ==
  (call.op = "parseJS" /\ ret.err = "none" /\ decl.hasCtor) =>
    IF DecorateAfterCtor = {}
    THEN /\ ret.val.src = src
         /\ ret.val.decorators = EmptyObject
         /\ ret.val.annotations = EmptyObject
    ELSE /\ Len(ret.val.src) >= Least(DecorateAfterCtor)
         /\ SubSeq(ret.val.src, 1, Least(DecorateAfterCtor))
              = SubSeq(src, 1, Least(DecorateAfterCtor))

\* The constructor holds a decoration call of y, a decoration call of x
\* follows the constructor: the call of x is recorded and rewritten, the
\* call of y is not recorded and the text up to the call of x is kept.
C27_Witness ==
  /\ call.op = "parseJS"
  /\ ret.err = "none"
  /\ decl.ctor = <<DecorateInCtor>>
  /\ Len(decl.fields) = 1
  /\ DecorateAfterCtor # {}
  /\ Least(DecorateOffsets(src)) < Least(DecorateAfterCtor)
  /\ ret.val.src # src
  /\ DOMAIN ret.val.decorators = {FieldX}

(***************************************************************************)
(* The keys of methodBodies.                                               *)
(***************************************************************************)
\* C30 as claimed: every key of methodBodies is the name of a method of the
\* declaration data; with declaration data without methods, methodBodies is
\* empty whatever the source holds.
C30_AsClaimed ==
  (call.op = "parseJS" /\ ret.err = "none") =>
    DOMAIN ret.val.methodBodies
      \subseteq {call.dtsData.methods[j] : j \in 1..Len(call.dtsData.methods)}

(***************************************************************************)
(* A bracket without a closing.                                            *)
(***************************************************************************)
\* The opening brackets at or after `from` that findClosing finds no closing
\* for and that are at top level: the brackets between `from` and them are
\* well nested.
UnclosedTopLevel(from) ==
  {u \in from..(Len(src) - 1) :
     /\ charAt(src, u) \in Opening
     /\ Zeroes(src, u, bracketsOf(charAt(src, u))) = {}
     /\ WellNestedFrom(slice(src, 0, u), from, <<>>)}

\* The offsets from `from` up to u at which the term is met at top level.
TargetsBefore(term, from, u) ==
  {i \in from..u :
     TermMatches(term, charAt(src, i)) /\ ~InsideOrClosing(slice(src, 0, u), from, i)}

RECURSIVE Joined(_, _)
Joined(chunks, sep) ==
  CASE chunks = <<>> -> <<>>
    [] Len(chunks) = 1 -> chunks[1]
    [] OTHER -> chunks[1] \o <<sep>> \o Joined(Tail(chunks), sep)

\* C29 as claimed: on a text whose strings and brackets are closed and on
\* which split does not throw, split without trimming returns one chunk more
\* than the text has separators outside strings and brackets, and the chunks
\* joined by the separator are the text.
C29_AsClaimed ==
  LET lexed == LexedFrom(src, 0)
      separators == {i \in lexed.top : charAt(src, i) = call.term.pat}
  IN (call.op = "split" /\ ~call.trim /\ ret.err = "none" /\ ~lexed.bad) =>
       /\ Len(ret.val) = Cardinality(separators) + 1
       /\ Joined(ret.val, call.term.pat) = src

====
